---------------------------- MODULE Spec2Model ----------------------------
(***************************************************************************)
(* A model of nehemming/numeric: the 6-limb base-1e9 fixed decimal (f24),  *)
(* its arithmetic engine (arith.go) and its text parser (fixed.go).        *)
(*                                                                         *)
(* An f24 is modelled as a record: v is the six limb magnitudes (the low   *)
(* 31 bits of each fVal, indices 0..5 as in the source) and neg, nan, ovf, *)
(* unf are the flag bits the source keeps in the high bit of limbs 0..3.   *)
(* 64-bit intermediates of the source are computed on digit sequences      *)
(* (see the "wide" operators) because the checker's integers are 32 bits.  *)
(***************************************************************************)
EXTENDS Integers, Sequences, FiniteSets, TLC

VARIABLES x, y, z, op, arg, obs, steps

vars == <<x, y, z, op, arg, obs, steps>>

---------------------------------------------------------------------------
(* Constants of fixed.go *)

radix == 1000000000
radixHalfI == 500000000
maxDigit == 999999999
precision == 54
maxWholeDigits == 18
maxDecimals == 36
radixDigits == 9
maxDecimalPlaces == 36
decMul == 100000000
lowIndex == 5
lenF24 == 6
decIndex == 2

(* RoundMode, numeric.go *)
RoundTowards == 0
RoundAway == 1
RoundHalfDown == 2
RoundHalfUp == 3

Limbs == 0..lowIndex

powers == [k \in 0..radixDigits |-> 10^k]

\* mulOffset with every entry one too high: the product of limbs i and j
\* would land two accumulator slots further left
mulOffsetShifted == [i \in Limbs |-> 2 - i]

mulOffset == [i \in Limbs |-> 1 - i]

---------------------------------------------------------------------------
(* fVal / f24 accessors *)

ZeroF24 ==
  [v |-> [i \in Limbs |-> 0], neg |-> FALSE, nan |-> FALSE, ovf |-> FALSE, unf |-> FALSE]

val(f, i) == f.v[i]

\* setVal keeps the flag bit and stores val & maskBits; every value handed to
\* it here is already below 2^31 (see Low31 for the one wider caller).
setVal(f, i, n) == [f EXCEPT !.v[i] = n]

setNeg(f, b) == [f EXCEPT !.neg = b]
setNaN(f, b) == [f EXCEPT !.nan = b]
setOverflow(f, b) == [f EXCEPT !.ovf = b]
setUnderflow(f, b) == [f EXCEPT !.unf = b]

isZero(f) == \A i \in Limbs : val(f, i) = 0

maxF24 == [ZeroF24 EXCEPT !.v = [i \in Limbs |-> maxDigit]]

\* overflow(isNeg) of fixed.go: a fresh canonical maximum
overflow(isNeg) == setOverflow(setNeg(maxF24, isNeg), TRUE)

\* arith.overflow without the loop that stores maxDigit in every limb
arithOverflowFlagOnly(f) == setOverflow(f, TRUE)

\* arith.overflow(z): all limbs to maxDigit, the other flags of z kept
arithOverflow(f) == [f EXCEPT !.v = [i \in Limbs |-> maxDigit], !.ovf = TRUE]

shouldBeNeg(f, isNeg) ==
  IF f.nan THEN FALSE
  ELSE IF isZero(f) THEN (IF f.unf THEN isNeg ELSE FALSE)
  ELSE isNeg

---------------------------------------------------------------------------
(* Wide naturals: the 64-bit and 128-bit intermediates of the source, kept *)
(* as little-endian sequences of base-1000 digits without leading zeros    *)
(* (<<>> is 0), so that radix = 1000^3 splits after three digits.          *)

RECURSIVE W(_)
W(n) == IF n = 0 THEN <<>> ELSE <<n % 1000>> \o W(n \div 1000)

\* the index of the last non-zero digit of s, 0 when there is none
WLast(s) ==
  IF \A k \in 1..Len(s) : s[k] = 0 THEN 0
  ELSE CHOOSE k \in 1..Len(s) : s[k] # 0 /\ \A m \in (k + 1)..Len(s) : s[m] = 0

WNorm(s) == SubSeq(s, 1, WLast(s))

RECURSIVE WToInt(_)
WToInt(w) == IF w = <<>> THEN 0 ELSE Head(w) + 1000 * WToInt(Tail(w))

WDigit(w, k) == IF k <= Len(w) THEN w[k] ELSE 0

\* one carry pass over columns: each keeps its low digit and takes the
\* overflow of the column below
WPass(s) ==
  LET n == Len(s) + 1
  IN SubSeq([k \in 1..n |-> (WDigit(s, k) % 1000)
                              + (IF k > 1 THEN s[k - 1] \div 1000 ELSE 0)], 1, n)

\* columns in 0..1000 to digits: a carry enters k when a column below is
\* 1000 and every column between is 999
WRipple(s) ==
  LET n == Len(s) + 1
      c(k) == \E j \in 1..(k - 1) :
                s[j] >= 1000 /\ \A m \in (j + 1)..(k - 1) : s[m] = 999
  IN WNorm([k \in 1..n |-> (WDigit(s, k) + (IF c(k) THEN 1 ELSE 0)) % 1000])

\* carry passes until every column is at most 1000
RECURSIVE WPasses(_)
WPasses(s) ==
  IF \A k \in 1..Len(s) : s[k] <= 1000 THEN s ELSE WPasses(WPass(s))

\* columns below 2^31 to a wide natural
WCarry(s) == WRipple(WPasses(s))

WMaxLen(a, b) == IF Len(a) > Len(b) THEN Len(a) ELSE Len(b)

WAdd(a, b) ==
  IF a = <<>> THEN b
  ELSE IF b = <<>> THEN a
  ELSE LET n == WMaxLen(a, b)
       IN WRipple(SubSeq([k \in 1..n |-> WDigit(a, k) + WDigit(b, k)], 1, n))

\* a - b for a >= b: a borrow enters k when a digit difference below is
\* negative and every difference between is zero
WSub(a, b) ==
  IF b = <<>> THEN a
  ELSE LET n == Len(a)
           d == SubSeq([k \in 1..n |-> a[k] - WDigit(b, k)], 1, n)
           c(k) == \E j \in 1..(k - 1) :
                     d[j] < 0 /\ \A m \in (j + 1)..(k - 1) : d[m] = 0
       IN WNorm([k \in 1..n |-> (d[k] - (IF c(k) THEN 1 ELSE 0) + 1000) % 1000])

WCmp(a, b) ==
  IF Len(a) > Len(b) THEN 1
  ELSE IF Len(a) < Len(b) THEN -1
  ELSE IF a = b THEN 0
  ELSE LET k == CHOOSE i \in 1..Len(a) :
                  a[i] # b[i] /\ \A m \in (i + 1)..Len(a) : a[m] = b[m]
       IN IF a[k] > b[k] THEN 1 ELSE -1

\* a * k for a digit-sized k (k < 1000000)
WMulSmall(a, k) ==
  IF k = 0 \/ a = <<>> THEN <<>>
  ELSE WCarry(SubSeq([i \in 1..Len(a) |-> a[i] * k], 1, Len(a)))

\* the sum of the digit products a[i] * b[j] with i + j = k + 1
RECURSIVE WColumn(_, _, _, _)
WColumn(a, b, k, i) ==
  IF i > Len(a) \/ i > k THEN 0
  ELSE (IF k + 1 - i <= Len(b) THEN a[i] * b[k + 1 - i] ELSE 0)
         + WColumn(a, b, k, i + 1)

\* a * b for a of at most 7 digits (every column stays below 2^31)
WMul(a, b) ==
  IF a = <<>> \/ b = <<>> THEN <<>>
  ELSE LET n == Len(a) + Len(b) - 1
       IN WCarry(SubSeq([k \in 1..n |-> WColumn(a, b, k, 1)], 1, n))

\* the largest k in lo..hi with k * b <= cur (lo qualifies)
RECURSIVE WQuoDigit(_, _, _, _)
WQuoDigit(cur, b, lo, hi) ==
  IF lo = hi THEN lo
  ELSE LET mid == (lo + hi + 1) \div 2
       IN IF WCmp(WMulSmall(b, mid), cur) <= 0
            THEN WQuoDigit(cur, b, mid, hi)
            ELSE WQuoDigit(cur, b, lo, mid - 1)

\* the three digits of cur at positions n+1, n, n-1, as one integer
WTop(cur, n) ==
  WDigit(cur, n + 1) * 1000000 + WDigit(cur, n) * 1000
    + (IF n >= 2 THEN WDigit(cur, n - 1) ELSE 0)

\* bounds of cur div b (cur < 1000 * b) from the leading digits of both
WQuoLo(cur, b) ==
  LET n == Len(b)
      bt == b[n] * 1000 + (IF n >= 2 THEN b[n - 1] ELSE 0)
  IN WTop(cur, n) \div (bt + 1)

WQuoHi(cur, b) ==
  LET n == Len(b)
      bt == b[n] * 1000 + (IF n >= 2 THEN b[n - 1] ELSE 0)
      h == (WTop(cur, n) + 1) \div bt
  IN IF h > 999 THEN 999 ELSE h

\* long division in base 1000 from digit k of a down, with quotient digits q
\* and remainder r so far
RECURSIVE WDivFrom(_, _, _, _, _)
WDivFrom(a, b, k, q, r) ==
  IF k = 0 THEN <<WNorm(q), r>>
  ELSE IF r = <<>> /\ a[k] = 0 THEN WDivFrom(a, b, k - 1, <<0>> \o q, r)
  ELSE LET step(cur, qd) ==
             WDivFrom(a, b, k - 1, <<qd>> \o q,
                      IF qd = 0 THEN cur ELSE WSub(cur, WMulSmall(b, qd)))
           from(cur) == step(cur, WQuoDigit(cur, b, WQuoLo(cur, b), WQuoHi(cur, b)))
       IN from(WNorm(<<a[k]>> \o r))

\* <<a div b, a mod b>> for b # 0
\* (the leading Len(b) - 1 digits of a are below b and start the remainder)
WDivMod(a, b) ==
  IF Len(a) < Len(b) THEN <<<<>>, a>>
  ELSE WDivFrom(a, b, Len(a) - Len(b) + 1, <<>>,
                SubSeq(a, Len(a) - Len(b) + 2, Len(a)))

WRadix == <<0, 0, 0, 1>>
W2p31 == <<648, 483, 147, 2>>
W2p63 == <<808, 775, 854, 36, 372, 223, 9>>
W2p64 == <<616, 551, 709, 73, 744, 446, 18>>

\* w / radix and w % radix
WDivRadix(w) == IF Len(w) <= 3 THEN <<>> ELSE SubSeq(w, 4, Len(w))
WModRadix(w) == IF Len(w) <= 3 THEN w ELSE WNorm(SubSeq(w, 1, 3))

\* A 64-bit word is the wide natural of its bit pattern (below 2^64); an
\* int64 is read from it in two's complement.
WMod64(w) == IF WCmp(w, W2p64) < 0 THEN w ELSE WDivMod(w, W2p64)[2]
WDiv64(w) == IF WCmp(w, W2p64) < 0 THEN <<>> ELSE WDivMod(w, W2p64)[1]

\* the wrap of a sum s of two words
WWrap(s) == IF WCmp(s, W2p64) < 0 THEN s ELSE WSub(s, W2p64)

\* a + b of two words wraps at most once
Add64(a, b) == WWrap(WAdd(a, b))
Mul64(a, b) == WMod64(WMul(a, b))
IsNeg64(w) == WCmp(w, W2p63) >= 0
Neg64(w) == IF w = <<>> THEN <<>> ELSE WSub(W2p64, w)
Sub64(a, b) == Add64(a, Neg64(b))

\* Go's int64 / and % by a positive divisor truncate toward zero
SLess64(a, b) ==
  LET less(na, nb) == IF na # nb THEN na ELSE WCmp(a, b) < 0
  IN less(IsNeg64(a), IsNeg64(b))

\* uint32(v) & maskBits of an int64 word, as an integer
Low31(w) == WToInt(WDivMod(w, W2p31)[2])

\* xi * yj of two limbs as uint64: <<v / radix, v % radix>>
limbProduct(a, b) ==
  LET split(v) == <<WToInt(WDivRadix(v)), WToInt(WModRadix(v))>>
  IN split(WMul(W(a), W(b)))

---------------------------------------------------------------------------
(* negate, abs, compare, equal *)

negate(f) ==
  IF f.nan THEN setNaN(ZeroF24, TRUE)
  ELSE setNeg(f, ~f.neg /\ ~(isZero(f) /\ ~f.unf))

abs(f) ==
  IF f.nan THEN setNaN(ZeroF24, TRUE)
  ELSE setNeg(f, FALSE)

RECURSIVE unsignedCompareFrom(_, _, _)
unsignedCompareFrom(a, b, i) ==
  IF i > lowIndex THEN 0
  ELSE IF val(a, i) > val(b, i) THEN 1
  ELSE IF val(a, i) < val(b, i) THEN -1
  ELSE unsignedCompareFrom(a, b, i + 1)

unsignedCompare(a, b) == unsignedCompareFrom(a, b, 0)

\* compareSameSign without the underflow tie-break: equal limbs compare as 0
\* whatever the underflow flags
compareSameSignLimbsOnly(a, b) ==
  IF a.ovf THEN -1
  ELSE IF b.ovf THEN 1
  ELSE unsignedCompare(a, b)

compareSameSign(a, b) ==
  IF a.ovf THEN -1
  ELSE IF b.ovf THEN 1
  ELSE LET c == unsignedCompare(a, b)
       IN IF c # 0 THEN c
          ELSE IF a.unf THEN 1
          ELSE IF b.unf THEN -1
          ELSE 0

\* compare with the NaN tests after the sign tests, so that two NaNs or a
\* NaN and a value of the other sign are ordered by sign alone
compareNaNLast(a, b) ==
  IF a.neg # b.neg THEN (IF a.neg THEN -1 ELSE 1)
  ELSE IF a.nan /\ b.nan THEN 0
  ELSE IF a.nan THEN -1
  ELSE IF b.nan THEN 1
  ELSE IF a.neg THEN 0 - compareSameSign(a, b)
  ELSE compareSameSign(a, b)

compare(a, b) ==
  IF a.nan THEN -1
  ELSE IF b.nan THEN 1
  ELSE LET cmp == IF a.neg = b.neg THEN compareSameSign(a, b) ELSE 0
       IN IF a.neg /\ b.neg THEN -cmp
          ELSE IF a.neg THEN -1
          ELSE IF b.neg THEN 1
          ELSE cmp

hasExceptionalState(f) == f.nan \/ f.unf \/ f.ovf

equal(a, b) ==
  IF hasExceptionalState(a) \/ hasExceptionalState(b) THEN FALSE ELSE a = b

---------------------------------------------------------------------------
(* add, sub *)

\* unsignedSub: limbs 5..1 with borrow, then limb 0 whose borrow is dropped
RECURSIVE subLimbs(_, _, _, _, _)
subLimbs(f, a, b, i, borrow) ==
  IF i < 0 THEN f
  ELSE LET bi == val(b, i) + borrow
           under == val(a, i) < bi
           ai == IF under THEN val(a, i) + radix ELSE val(a, i)
       IN subLimbs(setVal(f, i, ai - bi), a, b, i - 1, IF under THEN 1 ELSE 0)

unsignedSub(f, a, b) == subLimbs(f, a, b, lowIndex, 0)

\* unsignedAdd: limbs 5..0 with carry; <<limbs written, final carry>>
RECURSIVE addLimbs(_, _, _, _, _)
addLimbs(f, a, b, i, carry) ==
  IF i < 0 THEN <<f, carry>>
  ELSE LET sum == val(a, i) + val(b, i) + carry
       IN IF sum >= radix
            THEN addLimbs(setVal(f, i, sum - radix), a, b, i - 1, 1)
            ELSE addLimbs(setVal(f, i, sum), a, b, i - 1, 0)

\* unsignedAdd without the final carry test: a carry out of limb 0 is lost
unsignedAddNoCarryTest(f, a, b) == addLimbs(f, a, b, lowIndex, 0)[1]

unsignedAdd(f, a, b) ==
  LET r == addLimbs(f, a, b, lowIndex, 0)
  IN IF r[2] > 0 THEN overflow(r[1].neg) ELSE r[1]

add(a, b) ==
  IF a.nan \/ b.nan THEN setNaN(ZeroF24, TRUE)
  ELSE LET z0 == IF a.unf \/ b.unf THEN setUnderflow(ZeroF24, TRUE) ELSE ZeroF24
       IN IF a.neg = b.neg
            THEN LET z1 == setNeg(z0, a.neg)
                 IN IF a.ovf \/ b.ovf THEN arithOverflow(z1)
                    ELSE unsignedAdd(z1, a, b)
            ELSE IF a.ovf \/ b.ovf
                   THEN arithOverflow(setNeg(z0, a.neg \/ b.ovf))
                   ELSE LET c == unsignedCompare(a, b)
                        IN IF c = 0 THEN z0
                           ELSE IF c = 1 THEN setNeg(unsignedSub(z0, a, b), a.neg)
                           ELSE setNeg(unsignedSub(z0, b, a), b.neg)

sub(a, b) == add(a, negate(b))

---------------------------------------------------------------------------
(* round: the result and whether the limb index left the six limbs *)

RECURSIVE roundCarry(_, _, _, _)
roundCarry(f, a, i, carry) ==
  IF i < 0 THEN f
  ELSE LET xi == val(a, i) + carry
       IN roundCarry(setVal(f, i, xi % radix), a, i - 1, xi \div radix)

\* roundUp whose RoundHalfUp case sends an exact half down
roundUpHalfStrict(a, idx, rem, p, mode) ==
  IF mode = RoundAway
    THEN rem > 0 \/ \E i \in (idx + 1)..lowIndex : val(a, i) # 0
  ELSE IF mode = RoundHalfDown \/ mode = RoundHalfUp THEN rem > p \div 2
  ELSE FALSE

roundUp(a, idx, rem, p, mode) ==
  IF mode = RoundAway
    THEN rem > 0 \/ \E i \in (idx + 1)..lowIndex : val(a, i) # 0
  ELSE IF mode = RoundHalfDown THEN rem > p \div 2
  ELSE IF mode = RoundHalfUp THEN (rem + 1) > p \div 2
  ELSE FALSE

roundDigits(a, places, mode) ==
  LET idx == decIndex + (places \div radixDigits)
      v0 == val(a, idx)
      p == powers[radixDigits - (places % radixDigits)]
      rem == v0 % p
      v1 == IF roundUp(a, idx, rem, p, mode) THEN v0 - rem + p ELSE v0 - rem
      z1 == roundCarry(ZeroF24, a, idx - 1, v1 \div radix)
  IN setVal(z1, idx, v1 % radix)

round(a, places, mode) ==
  LET signed(r, panic) == [z |-> setNeg(r, shouldBeNeg(r, a.neg)), panic |-> panic]
  IN IF a.nan THEN signed(setNaN(ZeroF24, TRUE), FALSE)
     ELSE IF a.ovf THEN signed(arithOverflow(ZeroF24), FALSE)
     ELSE IF isZero(a) THEN signed(ZeroF24, FALSE)
     ELSE IF places < 0 THEN signed(setNaN(ZeroF24, TRUE), FALSE)
     ELSE IF decIndex + (places \div radixDigits) > lowIndex
       THEN signed(ZeroF24, TRUE)
     ELSE signed(roundDigits(a, places, mode), FALSE)

---------------------------------------------------------------------------
(* mul: the 12-slot accumulator; panic is an accumulator index outside     *)
(* 0..11                                                                   *)

AccSlots == 0..11

mulStep(st, xi, yj, pos) ==
  LET high(acc1, a2, low1) ==
        IF a2 < radix
          THEN [acc |-> [acc1 EXCEPT ![pos - 1] = a2], panic |-> FALSE, low |-> low1]
        ELSE IF pos - 2 \notin AccSlots THEN [st EXCEPT !.panic = TRUE]
        ELSE [acc |-> [acc1 EXCEPT ![pos - 1] = a2 - radix, ![pos - 2] = @ + 1],
              panic |-> FALSE,
              low |-> IF pos - 2 < low1 THEN pos - 2 ELSE low1]
      middle(acc1, hi) ==
        high(acc1, acc1[pos - 1] + hi, IF pos - 1 < st.low THEN pos - 1 ELSE st.low)
      low(a1, hi) ==
        middle([st.acc EXCEPT ![pos] = IF a1 >= radix THEN a1 - radix ELSE a1,
                              ![pos - 1] = IF a1 >= radix THEN @ + 1 ELSE @],
               hi)
      product(v) == low(st.acc[pos] + v[2], v[1])
  IN IF pos \notin AccSlots \/ pos - 1 \notin AccSlots
       THEN [st EXCEPT !.panic = TRUE]
     ELSE product(limbProduct(xi, yj))

\* the inner loop j = 5..0 for one non-zero limb xi of x
RECURSIVE mulRow(_, _, _, _, _)
mulRow(st, xi, b, i, j) ==
  IF j < 0 \/ st.panic THEN st
  ELSE IF val(b, j) = 0 THEN mulRow(st, xi, b, i, j - 1)
  ELSE mulRow(mulStep(st, xi, val(b, j), 3 - mulOffset[i] - mulOffset[j]),
              xi, b, i, j - 1)

\* the outer loop i = 5..0
RECURSIVE mulRows(_, _, _, _)
mulRows(st, a, b, i) ==
  IF i < 0 \/ st.panic THEN st
  ELSE IF val(a, i) = 0 THEN mulRows(st, a, b, i - 1)
  ELSE mulRows(mulRow(st, val(a, i), b, i, lowIndex), a, b, i - 1)

mulAccumulate(a, b) ==
  mulRows([acc |-> [k \in AccSlots |-> 0], panic |-> FALSE, low |-> 12],
          a, b, lowIndex)

mul(a, b) ==
  IF a.nan \/ b.nan THEN [z |-> setNaN(ZeroF24, TRUE), panic |-> FALSE, low |-> 12]
  ELSE LET z0 == setUnderflow(setNeg(ZeroF24, a.neg # b.neg), a.unf \/ b.unf)
           stored(st) ==
             IF st.panic THEN [z |-> z0, panic |-> TRUE, low |-> st.low]
             ELSE IF st.acc[0] # 0 \/ st.acc[1] # 0
               THEN [z |-> arithOverflow(z0), panic |-> FALSE, low |-> st.low]
             ELSE [z |-> [z0 EXCEPT !.v = [i \in Limbs |-> st.acc[i + 2]],
                                    !.unf = @ \/ \E k \in 8..11 : st.acc[k] # 0],
                   panic |-> FALSE, low |-> st.low]
       IN IF ~isZero(b) /\ (a.ovf \/ b.ovf)
            THEN [z |-> arithOverflow(z0), panic |-> FALSE, low |-> 12]
            ELSE stored(mulAccumulate(a, b))

---------------------------------------------------------------------------
(* divArray: eight int64 words *)

DivSlots == 0..7

ZeroDivArray == [i \in DivSlots |-> <<>>]

\* Go's int64 / and % by radix truncate toward zero
quoRadix(w) == IF IsNeg64(w) THEN Neg64(WDivRadix(Neg64(w))) ELSE WDivRadix(w)
remRadix(w) == IF IsNeg64(w) THEN Neg64(WModRadix(Neg64(w))) ELSE WModRadix(w)

RECURSIVE daMulFrom(_, _, _, _, _)
daMulFrom(d, k, i, carry, first) ==
  IF i < 0 THEN [d |-> d, carry |-> carry, first |-> first]
  ELSE LET store(di, c) ==
             daMulFrom([d EXCEPT ![i] = di], k, i - 1, c,
                       IF di # <<>> THEN i ELSE first)
           split(product) == store(remRadix(product), quoRadix(product))
       IN split(Add64(Mul64(d[i], k), carry))

daMul(d, k) == daMulFrom(d, k, 7, <<>>, 0)

RECURSIVE daSubFrom(_, _, _, _)
daSubFrom(d, other, i, borrow) ==
  IF i < 0 THEN [d |-> d, borrow |-> borrow]
  ELSE LET store(diff, neg) ==
             daSubFrom([d EXCEPT ![i] = IF neg THEN Add64(diff, WRadix) ELSE diff],
                       other, i - 1, IF neg THEN 1 ELSE 0)
           signOf(diff) == store(diff, IsNeg64(diff))
       IN signOf(Sub64(Sub64(d[i], other[i]), W(borrow)))

daSub(d, other) ==
  IF other = ZeroDivArray THEN [d |-> d, borrow |-> 0]
  ELSE daSubFrom(d, other, 7, 0)

daShiftCarry(d, carry) ==
  IF carry = <<>> THEN d
  ELSE [d EXCEPT ![0] = carry, ![1] = d[0], ![2] = d[1], ![3] = d[2],
                 ![4] = d[3], ![5] = d[4], ![6] = d[5], ![7] = d[6]]

\* the loop runs i = 1 .. len(d)-2, so slots 6 and 7 keep their words
daTrimZero(d) ==
  IF d[0] # <<>> THEN [d |-> d, trimmed |-> FALSE, isZero |-> FALSE]
  ELSE [d |-> [d EXCEPT ![0] = d[1], ![1] = d[2], ![2] = d[3],
                         ![3] = d[4], ![4] = d[5], ![5] = d[6]],
        trimmed |-> TRUE,
        isZero |-> \A i \in 1..6 : d[i] = <<>>]

\* the in-place left shift by n of divInner's normalization
shiftedWord(d, n, k) ==
  IF k + n <= 7 THEN d[k + n] ELSE IF k >= n THEN <<>> ELSE d[k]

daShiftLeft(d, n) ==
  [d EXCEPT ![0] = shiftedWord(d, n, 0), ![1] = shiftedWord(d, n, 1),
            ![2] = shiftedWord(d, n, 2), ![3] = shiftedWord(d, n, 3),
            ![4] = shiftedWord(d, n, 4), ![5] = shiftedWord(d, n, 5),
            ![6] = shiftedWord(d, n, 6), ![7] = shiftedWord(d, n, 7)]

\* <<hi, lo>> of carry * radix^2 + d[i] * radix + d[i+1] in uint64 arithmetic
u128(d, i, carry) ==
  LET words(full, lo0) ==
        LET high(hf, qs) == <<WMod64(WAdd(hf[1], qs[1])), qs[2]>>
            sum(hf, s) ==
              high(hf, IF WCmp(s, W2p64) < 0 THEN <<<<>>, s>> ELSE <<W(1), WSub(s, W2p64)>>)
            split(hf) == sum(hf, WAdd(hf[2], lo0))
        IN split(WDivMod(full, W2p64))
      low(lo0) ==
        IF carry = <<>> THEN <<<<>>, lo0>>
        ELSE words(WMul(Mul64(carry, WRadix), WRadix), lo0)
  IN low(Add64(Mul64(d[i], WRadix), d[i + 1]))

\* bits.Div64 panics when the divisor is zero or not above the high word
estimate(d, i, den, carry) ==
  LET quo(qr) ==
        [q |-> qr[1],
         carry |-> IF qr[1] = <<>> THEN WDivRadix(qr[2]) ELSE <<>>,
         panic |-> FALSE]
      div64(hl) ==
        IF den = <<>> \/ WCmp(den, hl[1]) <= 0
          THEN [q |-> <<>>, carry |-> <<>>, panic |-> TRUE]
          ELSE quo(WDivMod(WAdd(WMul(hl[1], W2p64), hl[2]), den))
  IN IF i + 1 \notin DivSlots THEN [q |-> <<>>, carry |-> <<>>, panic |-> TRUE]
     ELSE div64(u128(d, i, carry))

---------------------------------------------------------------------------
(* div and divInner *)

\* the copy loop: leading zero limbs are skipped, the rest stored from slot 1
RECURSIVE divLoad(_, _, _, _)
divLoad(st, a, b, i) ==
  IF i > lowIndex THEN st
  ELSE LET nv == W(val(a, i))
           dv == W(val(b, i))
           takeN == st.firstNumDigit # 0 \/ nv # <<>>
           takeD == st.firstDenDigit # 0 \/ dv # <<>>
       IN divLoad([num |-> IF takeN THEN [st.num EXCEPT ![st.np] = nv] ELSE st.num,
                   den |-> IF takeD THEN [st.den EXCEPT ![st.dp] = dv] ELSE st.den,
                   np |-> IF takeN THEN st.np + 1 ELSE st.np,
                   dp |-> IF takeD THEN st.dp + 1 ELSE st.dp,
                   firstNumDigit |-> IF takeN /\ st.firstNumDigit = 0 THEN i + 1
                                     ELSE st.firstNumDigit,
                   firstDenDigit |-> IF takeD /\ st.firstDenDigit = 0 THEN i + 1
                                     ELSE st.firstDenDigit],
                  a, b, i + 1)

\* the normalization block, entered when num[1] < radixHalfI
divNormalize(ld) ==
  LET shifted(d, first) == IF first > 0 THEN daShiftLeft(d, first) ELSE d
      scaled(mn, md) ==
        [num |-> shifted(mn.d, mn.first), den |-> shifted(md.d, md.first)]
      by(normalization) ==
        IF normalization # <<>>
          THEN scaled(daMul(ld.num, normalization), daMul(ld.den, normalization))
          ELSE [num |-> shifted(ld.num, ld.np), den |-> shifted(ld.den, ld.dp)]
  IN IF ~SLess64(ld.num[1], W(radixHalfI)) THEN [num |-> ld.num, den |-> ld.den]
     ELSE by(WDivMod(W(radixHalfI), Add64(ld.num[1], W(1)))[1])

\* the retry loop is followed for at most MaxRetry passes
MaxRetry == 6

\* the retry loop "for q != 0": prod is multiplied again on every retry; n
\* is the number of passes made, spin that the loop was left unfinished
RECURSIVE divRetry(_, _, _, _, _, _)
divRetry(prod, q, num, np, carry, n) ==
  LET left(t) ==
        IF ~t.trimmed
          THEN [q |-> q, num |-> t.d, np |-> 1, carry |-> t.d[0], spin |-> FALSE]
        ELSE IF t.d[0] = <<>>
          THEN [q |-> q, num |-> t.d, np |-> 0, carry |-> <<>>, spin |-> FALSE]
        ELSE IF np # 0
          THEN [q |-> q, num |-> t.d, np |-> 1, carry |-> t.d[0], spin |-> FALSE]
        ELSE [q |-> q, num |-> t.d, np |-> np, carry |-> <<>>, spin |-> FALSE]
      subtracted(p1, s) ==
        IF s.borrow # 0 THEN divRetry(p1, Sub64(q, W(1)), num, np, carry, n + 1)
        ELSE left(daTrimZero(s.d))
      try(p1) == subtracted(p1, daSub(num, p1))
      multiplied(m) == try(daTrimZero(daShiftCarry(m.d, m.carry)).d)
  IN IF q = <<>>
       THEN [q |-> q, num |-> num, np |-> np, carry |-> carry, spin |-> FALSE]
     ELSE IF n >= MaxRetry
       THEN [q |-> q, num |-> num, np |-> np, carry |-> carry, spin |-> TRUE]
     ELSE multiplied(daMul(prod, q))

\* one pass of the loop over the eight result digits; done records a break
divDigit(st, den, dEst, i) ==
  LET finished(t) == [st EXCEPT !.num = t.d, !.done = t.isZero]
      skipped(t, c) ==
        [st EXCEPT !.num = t.d, !.carry = c,
                   !.done = c = <<>> /\ t.isZero,
                   !.np = IF t.trimmed \/ (c = <<>> /\ t.isZero) THEN @ ELSE 1]
      stored(r) ==
        [num |-> r.num, np |-> r.np, carry |-> r.carry,
         res |-> [st.res EXCEPT ![i] = r.q], panic |-> FALSE,
         done |-> FALSE, spin |-> r.spin]
      estimated(e) ==
        IF e.panic THEN [st EXCEPT !.panic = TRUE]
        ELSE IF e.q = <<>> THEN skipped(daTrimZero(st.num), e.carry)
        ELSE stored(divRetry(den, e.q, st.num, st.np, e.carry, 0))
  IN IF st.num[st.np] = <<>> /\ st.carry = <<>>
       THEN finished(daTrimZero(st.num))
     ELSE estimated(estimate(st.num, st.np, dEst, st.carry))

RECURSIVE divDigits(_, _, _, _)
divDigits(st, den, dEst, i) ==
  IF i > 7 \/ st.panic \/ st.done \/ st.spin THEN st
  ELSE divDigits(divDigit(st, den, dEst, i), den, dEst, i + 1)

\* each result digit is placed at limb shift + i
RECURSIVE divPlace(_, _, _, _)
divPlace(f, res, shift, i) ==
  IF i > 7 THEN f
  ELSE LET rp == shift + i
           v == res[i]
       IN IF rp >= 0 /\ rp <= lowIndex
            THEN divPlace(setVal(f, rp, Low31(v)), res, shift, i + 1)
          ELSE IF rp < 0 /\ v # <<>> /\ ~IsNeg64(v) THEN arithOverflow(f)
          ELSE IF rp > lowIndex /\ v # <<>> THEN setUnderflow(f, TRUE)
          ELSE divPlace(f, res, shift, i + 1)

divInner(f, a, b) ==
  LET placed(st, shift) ==
        IF st.panic \/ st.spin THEN [z |-> f, panic |-> st.panic, spin |-> st.spin]
        ELSE [z |-> divPlace(f, st.res, IF st.res[0] = <<>> THEN shift - 1 ELSE shift, 0),
              panic |-> FALSE, spin |-> FALSE]
      digits(num, den, shift) ==
        placed(divDigits([num |-> num, np |-> 0, carry |-> <<>>,
                          res |-> ZeroDivArray, panic |-> FALSE, done |-> FALSE,
                          spin |-> FALSE],
                         den, Add64(Mul64(den[0], WRadix), den[1]), 0),
               shift)
      normalized(nm, shift) == digits(nm.num, daTrimZero(nm.den).d, shift)
      loaded(ld) ==
        normalized(divNormalize(ld),
                   (1 + ld.firstNumDigit - ld.firstDenDigit)
                     + (IF SLess64(ld.num[1], ld.den[1]) THEN 1 ELSE 0))
  IN loaded(divLoad([num |-> ZeroDivArray, den |-> ZeroDivArray, np |-> 1, dp |-> 1,
                     firstNumDigit |-> 0, firstDenDigit |-> 0], a, b, 0))

div(a, b) ==
  LET signed(body) ==
        [z |-> setNeg(body.z, shouldBeNeg(body.z, a.neg # b.neg)),
         panic |-> body.panic, spin |-> body.spin]
  IN IF a.nan \/ b.nan \/ isZero(b)
       THEN [z |-> setNaN(ZeroF24, TRUE), panic |-> FALSE, spin |-> FALSE]
     ELSE IF a.ovf \/ b.ovf
       THEN signed([z |-> arithOverflow(ZeroF24), panic |-> FALSE, spin |-> FALSE])
     ELSE IF isZero(a)
       THEN signed([z |-> setUnderflow(ZeroF24, a.unf \/ b.unf),
                    panic |-> FALSE, spin |-> FALSE])
     ELSE signed(divInner(setUnderflow(ZeroF24, a.unf \/ b.unf), a, b))

---------------------------------------------------------------------------
(* Values and observations shared by the specifications                    *)

\* an f24 from its six limbs, most significant first, all flags clear
f24Of(l) == [ZeroF24 EXCEPT !.v = [i \in Limbs |-> l[i + 1]]]

NaNF24 == setNaN(ZeroF24, TRUE)

\* what a call lets its caller observe besides z: panic is a run-time panic
\* (index out of range, bits.Div64), cmp and rev are results of compare,
\* low is the lowest accumulator index mul touched (12 when none), spin
\* that the division's retry loop ran past MaxRetry passes, err an error
\* returned by FromString and kind the sentinel it wraps ("nil" for none)
NoObs ==
  [panic |-> FALSE, cmp |-> 0, rev |-> 0, low |-> 12, spin |-> FALSE, err |-> FALSE,
   kind |-> "nil"]

Modes == {RoundTowards, RoundAway, RoundHalfDown, RoundHalfUp}

---------------------------------------------------------------------------
(* SpecRound: Numeric.Round applied once to a chosen value                 *)

MaxPlaces == 37

RoundPlaces == (0 - 1)..MaxPlaces

RoundLimbs ==
  { <<0, 0, 0, 0, 0, 0>>,
    <<0, 1, 0, 0, 0, 0>>,
    <<0, 1, 500000000, 0, 0, 0>>,
    <<0, 2, 499999999, 999999999, 999999999, 999999999>>,
    <<0, 2, 500000000, 0, 0, 1>>,
    <<0, 0, 0, 0, 0, 1>>,
    <<0, 0, 0, 0, 0, 5>>,
    <<0, 999999999, 999999999, 999999999, 999999999, 999999999>>,
    <<999999999, 999999999, 999999999, 999999999, 999999999, 999999995>>,
    <<123456789, 987654321, 123456789, 987654321, 555555555, 444444444>> }

RoundInputs ==
  { f24Of(l) : l \in RoundLimbs }
    \cup { setNeg(f24Of(l), TRUE) : l \in RoundLimbs \ {<<0, 0, 0, 0, 0, 0>>} }
    \cup { setUnderflow(setNeg(f24Of(l), s), TRUE) : l \in RoundLimbs, s \in BOOLEAN }
    \cup { overflow(s) : s \in BOOLEAN }
    \cup { NaNF24 }

InitRound ==
  /\ x \in RoundInputs
  /\ arg \in [places : RoundPlaces, mode : Modes]
  /\ y = ZeroF24
  /\ z = ZeroF24
  /\ op = "none"
  /\ obs = NoObs
  /\ steps = 0

\* Numeric.Round: z = round(x, places, mode)
DoRound ==
  /\ op = "none"
  /\ LET returned(r) ==
           /\ z' = r.z
           /\ obs' = [obs EXCEPT !.panic = r.panic]
     IN returned(round(x, arg.places, arg.mode))
  /\ op' = "round"
  /\ steps' = steps + 1
  /\ UNCHANGED <<x, y, arg>>

SpecRound == InitRound /\ [][DoRound]_vars

\* C1: round is total: for every non-NaN x and every places >= 0, with any
\* of the four modes, the call returns without a panic (the limb index
\* decIndex + places/9 stays within the six limbs).
C1_RoundTotal ==
  (op = "round" /\ ~x.nan /\ arg.places >= 0) => ~obs.panic

\* the part of C1 that the code does keep: places below maxDecimalPlaces
C1_RoundTotalBelow36 ==
  (op = "round" /\ ~x.nan /\ arg.places >= 0 /\ arg.places < maxDecimalPlaces)
    => ~obs.panic

C1_RoundedAt35 ==
  op = "round" /\ ~x.nan /\ ~x.ovf /\ ~isZero(x) /\ arg.places = 35 /\ ~obs.panic

---------------------------------------------------------------------------
(* SpecDiv: Numeric.Div applied once to a chosen pair                      *)

DivLimbsX ==
  { <<0, 1, 0, 0, 0, 0>>,
    <<0, 6, 0, 0, 0, 0>>,
    <<0, 2, 0, 0, 0, 0>>,
    <<100000000, 0, 0, 0, 0, 0>>,
    <<0, 0, 500000000, 0, 0, 0>>,
    <<0, 0, 0, 999999999, 0, 0>>,
    <<999999999, 999999999, 0, 0, 0, 0>>,
    <<0, 0, 0, 0, 0, 1>>,
    <<0, 0, 0, 0, 0, 0>> }

DivLimbsY ==
  { <<0, 3, 0, 0, 0, 0>>,
    <<0, 7, 0, 0, 0, 0>>,
    <<0, 2, 0, 0, 0, 0>>,
    <<0, 0, 100000000, 0, 0, 0>>,
    <<1, 0, 1, 0, 0, 0>>,
    <<0, 1, 0, 2, 1, 0>>,
    <<0, 0, 0, 0, 0, 1>>,
    <<1, 0, 0, 0, 0, 0>>,
    <<0, 1, 0, 0, 0, 0>>,
    <<0, 0, 0, 0, 0, 0>> }

\* operands that carry a sign or a flag
DivFlagged ==
  { setNeg(f24Of(<<0, 2, 0, 0, 0, 0>>), TRUE),
    setUnderflow(f24Of(<<0, 1, 0, 0, 0, 0>>), TRUE),
    setUnderflow(setNeg(ZeroF24, TRUE), TRUE),
    overflow(FALSE),
    NaNF24 }

DivInputsX == { f24Of(l) : l \in DivLimbsX } \cup DivFlagged

DivInputsY == { f24Of(l) : l \in DivLimbsY } \cup DivFlagged

InitDiv ==
  /\ x \in DivInputsX
  /\ y \in DivInputsY
  /\ z = ZeroF24
  /\ op = "none"
  /\ arg = 0
  /\ obs = NoObs
  /\ steps = 0

\* Numeric.Div: z = div(x, y)
DoDiv ==
  /\ op = "none"
  /\ LET returned(r) ==
           /\ z' = r.z
           /\ obs' = [obs EXCEPT !.panic = r.panic, !.spin = r.spin]
     IN returned(div(x, y))
  /\ op' = "div"
  /\ steps' = steps + 1
  /\ UNCHANGED <<x, y, arg>>

SpecDiv == InitDiv /\ [][DoDiv]_vars

\* all six limb magnitudes below 10^9
limbsInRange(f) == \A i \in Limbs : val(f, i) >= 0 /\ val(f, i) < radix

\* C2: div is total: for every pair of operands whose limbs are all below
\* 10^9 the call returns a value; bits.Div64 is never called with a zero
\* divisor or a high word >= the divisor, and no index leaves the 8-slot
\* arrays or the six limbs.
C2_DivTotal ==
  (op = "div" /\ limbsInRange(x) /\ limbsInRange(y)) => ~obs.panic

\* The exact quotient the division is measured against: the magnitude of
\* an f24 as a wide natural (the integer |f| * 10^36) ...
magnitude(f) ==
  WNorm([k \in 1..18 |->
           (val(f, lowIndex - ((k - 1) \div 3)) \div (1000 ^ ((k - 1) % 3))) % 1000])

\* ... and <<floor(|a| * 10^36 / |b|) as the integer scaled by 10^36,
\* remainder>>, for b # 0
exactQuotient(a, b) ==
  LET m == magnitude(a)
      n == IF m = <<>> THEN <<>> ELSE <<0, 0, 0, 0, 0, 0, 0, 0, 0, 0, 0, 0>> \o m
  IN WDivMod(n, magnitude(b))

\* limb i of a wide natural below 10^54
limbOfWide(w, i) ==
  LET k == 3 * (lowIndex - i)
  IN WDigit(w, k + 1) + 1000 * WDigit(w, k + 2) + 1000000 * WDigit(w, k + 3)

noFlags(f) == ~f.nan /\ ~f.ovf /\ ~f.unf

\* C10: for flag-free x and y with y # 0: if |x/y| < 10^18 the result has
\* magnitude floor(|x|/|y| * 10^36) / 10^36, no overflow flag, and the
\* underflow flag exactly when the truncation dropped a non-zero remainder;
\* if |x/y| >= 10^18 the result is the canonical overflow.
C10_DivExact ==
  (op = "div" /\ noFlags(x) /\ noFlags(y) /\ ~isZero(y)) =>
    /\ ~obs.panic
    /\ LET qr == exactQuotient(x, y)
       IN IF Len(qr[1]) > 18
            THEN ~z.nan /\ z.ovf /\ \A i \in Limbs : val(z, i) = maxDigit
            ELSE /\ ~z.nan /\ ~z.ovf
                 /\ \A i \in Limbs : val(z, i) = limbOfWide(qr[1], i)
                 /\ z.unf = (qr[2] # <<>>)

---------------------------------------------------------------------------
(* SpecMul: Numeric.Mul applied once to a chosen pair                      *)

MulLimbs ==
  { <<0, 0, 0, 0, 0, 0>>,
    <<0, 1, 0, 0, 0, 0>>,
    <<0, 2, 500000000, 0, 0, 0>>,
    <<0, 0, 0, 0, 0, 1>>,
    <<999999999, 0, 0, 0, 0, 0>>,
    <<0, 999999999, 999999999, 0, 0, 0>>,
    <<0, 31622, 776601683, 793319988, 935444327, 185337195>>,
    <<0, 500000000, 0, 999999999, 0, 0>>,
    <<0, 1, 1, 0, 0, 2>>,
    <<999999999, 999999999, 999999999, 999999999, 999999999, 999999999>> }

MulFlagged ==
  { setNeg(f24Of(<<0, 1, 0, 0, 0, 0>>), TRUE),
    setUnderflow(f24Of(<<0, 0, 0, 0, 0, 1>>), TRUE),
    overflow(FALSE),
    overflow(TRUE),
    NaNF24 }

MulInputs == { f24Of(l) : l \in MulLimbs } \cup MulFlagged

InitMul ==
  /\ x \in MulInputs
  /\ y \in MulInputs
  /\ z = ZeroF24
  /\ op = "none"
  /\ arg = 0
  /\ obs = NoObs
  /\ steps = 0

\* Numeric.Mul: z = mul(x, y)
DoMul ==
  /\ op = "none"
  /\ LET returned(r) ==
           /\ z' = r.z
           /\ obs' = [obs EXCEPT !.panic = r.panic, !.low = r.low]
     IN returned(mul(x, y))
  /\ op' = "mul"
  /\ steps' = steps + 1
  /\ UNCHANGED <<x, y, arg>>

SpecMul == InitMul /\ [][DoMul]_vars

\* C3: mul is total: for operands whose limbs are all below 10^9, every
\* accumulator index pos, pos-1, pos-2 that is used lies in 0..11; the
\* carry out of accumulator[0] (index -1 at pos = 1) never happens.
C3_MulIndices ==
  (op = "mul" /\ limbsInRange(x) /\ limbsInRange(y)) =>
    (~obs.panic /\ obs.low >= 0 /\ obs.low <= 12)

\* the top limbs of both operands are at their maximum, so the step at
\* pos = 1 runs with the largest product and accumulator[0] is written
C3_TopLimbsMultiplied ==
  /\ op = "mul"
  /\ val(x, 0) = maxDigit /\ val(y, 0) = maxDigit
  /\ val(x, 1) = maxDigit /\ val(y, 1) = maxDigit
  /\ ~x.ovf /\ ~y.ovf
  /\ obs.low = 0 /\ ~obs.panic /\ z.ovf

---------------------------------------------------------------------------
(* The text parser of fixed.go. A string is a sequence of one-character    *)
(* strings; digits is the record of the source's digits struct, v being    *)
(* its array of precision decimal digits.                                  *)

DigitChars == <<"0", "1", "2", "3", "4", "5", "6", "7", "8", "9">>

isDigitChar(ch) == \E n \in 1..10 : DigitChars[n] = ch

\* ch - '0'
digitOf(ch) == (CHOOSE n \in 1..10 : DigitChars[n] = ch) - 1

ZeroDigits ==
  [v |-> [i \in 0..(precision - 1) |-> 0], pointIdx |-> 0, count |-> 0,
   isNeg |-> FALSE, isNaN |-> FALSE, isOverflow |-> FALSE, isUnderflow |-> FALSE]

\* strings.TrimSpace, for the space character
RECURSIVE TrimSpace(_)
TrimSpace(s) ==
  IF s = <<>> THEN s
  ELSE IF Head(s) = " " THEN TrimSpace(Tail(s))
  ELSE IF s[Len(s)] = " " THEN TrimSpace(SubSeq(s, 1, Len(s) - 1))
  ELSE s

\* parsePrefix whose '-' case tests only isNeg, so a '-' after a '+' passes
RECURSIVE parsePrefixMinusAfterPlus(_, _, _, _)
parsePrefixMinusAfterPlus(d, posSeen, s, pos) ==
  IF pos > Len(s) THEN [d |-> d, rest |-> <<>>, err |-> FALSE, kind |-> "nil"]
  ELSE IF s[pos] = "~"
    THEN IF d.isUnderflow
           THEN [d |-> d, rest |-> <<>>, err |-> TRUE,
                 kind |-> "ErrMultipleUnderflowSymbols"]
         ELSE parsePrefixMinusAfterPlus([d EXCEPT !.isUnderflow = TRUE], posSeen, s, pos + 1)
  ELSE IF s[pos] = "<"
    THEN IF d.isOverflow
           THEN [d |-> d, rest |-> <<>>, err |-> TRUE,
                 kind |-> "ErrMultipleOverflowSymbols"]
         ELSE parsePrefixMinusAfterPlus([d EXCEPT !.isOverflow = TRUE], posSeen, s, pos + 1)
  ELSE IF s[pos] = "-"
    THEN IF d.isNeg
           THEN [d |-> d, rest |-> <<>>, err |-> TRUE, kind |-> "ErrMultipleMinusSigns"]
         ELSE parsePrefixMinusAfterPlus([d EXCEPT !.isNeg = TRUE], posSeen, s, pos + 1)
  ELSE IF s[pos] = "+"
    THEN IF d.isNeg \/ posSeen
           THEN [d |-> d, rest |-> <<>>, err |-> TRUE, kind |-> "ErrMultiplePlusSigns"]
         ELSE parsePrefixMinusAfterPlus([d EXCEPT !.isNeg = FALSE], TRUE, s, pos + 1)
  ELSE [d |-> d, rest |-> SubSeq(s, pos, Len(s)), err |-> FALSE, kind |-> "nil"]

\* the loop of digits.parsePrefix from position pos: the flags read, the
\* rest of the string from the first character that is no prefix symbol,
\* and whether an error was returned
RECURSIVE parsePrefixFrom(_, _, _, _)
parsePrefixFrom(d, posSeen, s, pos) ==
  IF pos > Len(s) THEN [d |-> d, rest |-> <<>>, err |-> FALSE, kind |-> "nil"]
  ELSE IF s[pos] = "~"
    THEN IF d.isUnderflow
           THEN [d |-> d, rest |-> <<>>, err |-> TRUE,
                 kind |-> "ErrMultipleUnderflowSymbols"]
         ELSE parsePrefixFrom([d EXCEPT !.isUnderflow = TRUE], posSeen, s, pos + 1)
  ELSE IF s[pos] = "<"
    THEN IF d.isOverflow
           THEN [d |-> d, rest |-> <<>>, err |-> TRUE,
                 kind |-> "ErrMultipleOverflowSymbols"]
         ELSE parsePrefixFrom([d EXCEPT !.isOverflow = TRUE], posSeen, s, pos + 1)
  ELSE IF s[pos] = "-"
    THEN IF d.isNeg \/ posSeen
           THEN [d |-> d, rest |-> <<>>, err |-> TRUE, kind |-> "ErrMultipleMinusSigns"]
         ELSE parsePrefixFrom([d EXCEPT !.isNeg = TRUE], posSeen, s, pos + 1)
  ELSE IF s[pos] = "+"
    THEN IF d.isNeg \/ posSeen
           THEN [d |-> d, rest |-> <<>>, err |-> TRUE, kind |-> "ErrMultiplePlusSigns"]
         ELSE parsePrefixFrom([d EXCEPT !.isNeg = FALSE], TRUE, s, pos + 1)
  ELSE [d |-> d, rest |-> SubSeq(s, pos, Len(s)), err |-> FALSE, kind |-> "nil"]

parsePrefix(d, s) ==
  IF s = <<"N", "a", "N">>
    THEN [d |-> [d EXCEPT !.isNaN = TRUE], rest |-> <<>>, err |-> FALSE, kind |-> "nil"]
    ELSE parsePrefixFrom(d, FALSE, s, 1)

\* the local variables of digits.parseString before its loop
ZeroScan ==
  [v |-> ZeroDigits.v, count |-> 0, digitCount |-> 0, overflows |-> 0,
   underflow |-> 0, pointIdx |-> 0, sawDigit |-> FALSE, expSeen |-> FALSE,
   expSign |-> 0, decimalSeen |-> FALSE, hasExp |-> FALSE, expVal |-> 0,
   lead |-> FALSE, err |-> FALSE, kind |-> "nil"]

\* one pass of the loop of digits.parseString, for the character ch
scanChar(st, ch) ==
  IF isDigitChar(ch)
    THEN IF st.expSeen
           THEN [st EXCEPT !.expSign = IF @ = 0 THEN 1 ELSE @,
                           !.expVal = @ * 10 + digitOf(ch),
                           !.hasExp = TRUE]
         ELSE IF st.count < precision
           THEN IF digitOf(ch) = 0 /\ ~st.lead
                  THEN [st EXCEPT !.sawDigit = TRUE]
                  ELSE [st EXCEPT !.sawDigit = TRUE,
                                  !.lead = TRUE,
                                  !.v[st.count] = digitOf(ch),
                                  !.count = @ + 1,
                                  !.digitCount = IF st.decimalSeen THEN @ + 1 ELSE @]
         ELSE IF st.decimalSeen /\ st.digitCount > maxDecimals
           THEN [st EXCEPT !.sawDigit = TRUE, !.underflow = @ + 1]
         ELSE [st EXCEPT !.sawDigit = TRUE, !.overflows = @ + 1]
  ELSE IF ch = "."
    THEN IF st.decimalSeen \/ st.expSeen
           THEN [st EXCEPT !.err = TRUE, !.kind = "ErrInvalidDecimalPoint"]
         ELSE [st EXCEPT !.decimalSeen = TRUE, !.lead = TRUE, !.pointIdx = st.count]
  ELSE IF ch = "e" \/ ch = "E"
    THEN IF st.expSeen THEN [st EXCEPT !.err = TRUE, !.kind = "ErrMultipleExponents"]
         ELSE [st EXCEPT !.expSeen = TRUE]
  ELSE IF ch = "+" \/ ch = "-"
    THEN IF st.expSign # 0
           THEN [st EXCEPT !.err = TRUE, !.kind = "ErrMultipleExponentSigns"]
         ELSE [st EXCEPT !.expSign = IF ch = "-" THEN 0 - 1 ELSE 1]
  ELSE [st EXCEPT !.err = TRUE, !.kind = "ErrInvalidCharacter"]

RECURSIVE scanFrom(_, _, _)
scanFrom(st, s, pos) ==
  IF pos > Len(s) \/ st.err THEN st
  ELSE scanFrom(scanChar(st, s[pos]), s, pos + 1)

min(a, b) == IF a < b THEN a ELSE b
max(a, b) == IF a > b THEN a ELSE b

\* the tail of digits.scale: the decimal and whole digit counts are checked
\* and count and pointIdx stored
scaleStore(d, pointIdx, count) ==
  LET dp == count - pointIdx
      d1 == IF dp > maxDecimalPlaces THEN [d EXCEPT !.isUnderflow = TRUE] ELSE d
  IN IF count - dp > maxWholeDigits THEN [d1 EXCEPT !.isOverflow = TRUE]
     ELSE [d1 EXCEPT !.count = count, !.pointIdx = pointIdx]

scale(d, pointIdx, count, expVal, expSign) ==
  IF expSign = 1
    THEN LET dp == pointIdx + expVal
         IN IF dp > maxWholeDigits THEN [d EXCEPT !.isOverflow = TRUE]
            ELSE scaleStore(d, dp, max(count, dp))
  ELSE IF expSign = 0 - 1
    THEN LET dp == pointIdx - expVal
             d1 == IF count - dp > maxDecimalPlaces
                     THEN [d EXCEPT !.isUnderflow = TRUE] ELSE d
             insert == min(precision, 0 - dp)
         IN IF dp >= 0 THEN scaleStore(d1, dp, count)
            ELSE IF insert < precision
              THEN scaleStore(
                     [d1 EXCEPT !.v = [i \in 0..(precision - 1) |->
                                        IF i >= insert /\ i - insert < count
                                          THEN d.v[i - insert] ELSE 0]],
                     0, insert + count)
            ELSE scaleStore([d1 EXCEPT !.v = ZeroDigits.v], 0, 0)
  ELSE scaleStore(d, pointIdx, count)

\* digits.parseString: the digits read from s, or an error
digitsParseString(d, s) ==
  IF Len(s) = 0 THEN [d |-> [d EXCEPT !.isNaN = TRUE], err |-> FALSE, kind |-> "nil"]
  ELSE LET scanned(st) ==
             IF st.err
               THEN [d |-> [d EXCEPT !.v = st.v], err |-> TRUE, kind |-> st.kind]
             ELSE IF st.expSeen /\ ~st.hasExp
               THEN [d |-> [d EXCEPT !.v = st.v], err |-> TRUE,
                     kind |-> "ErrNoExponentValue"]
             ELSE IF ~st.sawDigit
               THEN [d |-> [d EXCEPT !.v = st.v], err |-> TRUE,
                     kind |-> "ErrNoDigitsInInput"]
             ELSE IF st.overflows > 0
               THEN [d |-> [d EXCEPT !.v = st.v, !.isOverflow = TRUE],
                     err |-> FALSE, kind |-> "nil"]
             ELSE [d |-> scale([d EXCEPT !.v = st.v,
                                         !.isUnderflow = @ \/ st.underflow > 0],
                               IF st.decimalSeen THEN st.pointIdx ELSE st.count,
                               st.count, st.expVal, st.expSign),
                   err |-> FALSE, kind |-> "nil"]
       IN scanned(scanFrom(ZeroScan, s, 1))

\* digits.setOverflow
digitsSetOverflow(d) ==
  [d EXCEPT !.isOverflow = TRUE, !.pointIdx = maxWholeDigits, !.count = precision,
            !.v = [i \in 0..(precision - 1) |-> 9]]

\* the package-level parseString
parseString(s) ==
  LET parsed(q) ==
        IF q.err THEN [d |-> ZeroDigits, err |-> TRUE, kind |-> q.kind]
        ELSE IF q.d.isOverflow
          THEN [d |-> digitsSetOverflow(q.d), err |-> FALSE, kind |-> "nil"]
        ELSE q
      prefixed(p) ==
        IF p.err THEN [d |-> ZeroDigits, err |-> TRUE, kind |-> p.kind]
        ELSE IF p.d.isNaN THEN [d |-> p.d, err |-> FALSE, kind |-> "nil"]
        ELSE parsed(digitsParseString(p.d, p.rest))
  IN prefixed(parsePrefix(ZeroDigits, TrimSpace(s)))

\* val = val*10 + v over d.v[:pointIdx] in uint64, kept as the pair
\* <<val / radix, val % radix>>
RECURSIVE wholePart(_, _, _, _)
wholePart(d, i, hi, lo) ==
  IF i >= d.pointIdx THEN <<hi, lo>>
  ELSE wholePart(d, i + 1, hi * 10 + (lo \div (radix \div 10)),
                 (lo % (radix \div 10)) * 10 + d.v[i])

\* val += v * mul, mul /= 10 over d.v[i:end], m being mul
RECURSIVE fracVal(_, _, _, _)
fracVal(d, i, end, m) ==
  IF i >= end THEN 0
  ELSE d.v[i] * m + fracVal(d, i + 1, end, m \div 10)

\* the loop over the decimal limbs p = decIndex..5 while dp > 0
RECURSIVE fracLimbs(_, _, _, _, _)
fracLimbs(f, d, p, start, dp) ==
  IF p >= lenF24 \/ dp <= 0 THEN f
  ELSE LET end == start + min(dp, radixDigits)
       IN fracLimbs(setVal(f, p, fracVal(d, start, end, decMul) % radix),
                    d, p + 1, end, dp - radixDigits)

\* digits.F24
F24(d) ==
  IF d.isNaN THEN setNaN(setNeg(ZeroF24, d.isNeg), TRUE)
  ELSE IF d.isOverflow \/ d.pointIdx > maxWholeDigits
    THEN setUnderflow(overflow(d.isNeg), d.isUnderflow)
  ELSE LET whole(w) == setVal(setVal(ZeroF24, 0, w[1]), 1, w[2])
           dp == d.count - d.pointIdx
       IN setUnderflow(setNeg(fracLimbs(whole(wholePart(d, 0, 0, 0)), d, decIndex,
                                        d.pointIdx, min(dp, maxDecimalPlaces)),
                              d.isNeg),
                       d.isUnderflow \/ dp > maxDecimalPlaces)

f24String(s) ==
  LET converted(r) ==
        IF r.err THEN [z |-> NaNF24, err |-> TRUE, kind |-> r.kind]
        ELSE [z |-> F24(r.d), err |-> FALSE, kind |-> "nil"]
  IN converted(parseString(s))

\* FromString: the zero Numeric and the error, or the parsed value
FromString(s) ==
  LET returned(r) == IF r.err THEN [z |-> ZeroF24, err |-> TRUE, kind |-> r.kind] ELSE r
  IN returned(f24String(s))

\* UnmarshalText that stores what FromString returned before testing the error
UnmarshalTextAssignFirst(n, text) ==
  LET stored(r) == [n |-> r.z, err |-> r.err, kind |-> r.kind]
  IN stored(FromString(text))

\* Numeric.UnmarshalText on the receiver n: the receiver afterwards and the
\* error returned
UnmarshalText(n, text) ==
  LET stored(r) == [n |-> IF r.err THEN n ELSE r.z, err |-> r.err, kind |-> r.kind]
  IN stored(FromString(text))

\* the data handed on by UnmarshalJSON: without its first and last byte when
\* both are double quotes, as it is otherwise
jsonPayload(data) ==
  IF Len(data) < 2 \/ data[1] # "\"" \/ data[Len(data)] # "\"" THEN data
  ELSE SubSeq(data, 2, Len(data) - 1)

\* Numeric.UnmarshalJSON on the receiver n
UnmarshalJSON(n, data) == UnmarshalText(n, jsonPayload(data))

\* 10^18 - 1 as a wide natural
maxValue == <<999, 999, 999, 999, 999, 999>>

\* f24Int(v) for the int64 v with sign isNeg (v < 0) and magnitude u
f24Int(isNeg, u) ==
  IF WCmp(u, maxValue) >= 0 THEN overflow(isNeg)
  ELSE setVal(setVal(setNeg(ZeroF24, isNeg), 0, WToInt(WDivRadix(u))),
              1, WToInt(WModRadix(u)))

---------------------------------------------------------------------------
(* Spec: a caller holding two Numeric variables x and y builds values with *)
(* FromString and FromInt and combines them with Add, Sub, Mul, Div,       *)
(* Round, Neg and Abs. Every call's result z becomes x and the former x    *)
(* becomes y; arg keeps the operands of the last call. A panic ends the    *)
(* run.                                                                    *)

MaxSteps == 3

StringInputs ==
  { <<"0">>,
    <<"-", "0">>,
    <<"1">>,
    <<"-", "1">>,
    <<"3">>,
    <<"0", ".", "5">>,
    <<"-", "~", "0">>,
    <<"<", "1">>,
    <<"N", "a", "N">>,
    <<"1", "e", "1", "8">>,
    <<"1", "e", "-", "3", "7">>,
    <<" ", "1", "0", "0", "0", "0", "0", "0", "0", "0", "0", ".", "0", "0", "0", "0", "0", "0", "0", "0", "1">>,
    <<"0", ".", "0", "0", "0", "0", "0", "0", "0", "0", "0", "9", "9", "9", "9", "9", "9", "9", "9", "9">>,
    <<"1", ".", "2", ".", "3">> }

\* int arguments of FromInt as sign and magnitude
IntInputs ==
  { [neg |-> FALSE, u |-> <<>>],
    [neg |-> TRUE, u |-> W(7)],
    [neg |-> FALSE, u |-> <<998, 999, 999, 999, 999, 999>>],
    [neg |-> FALSE, u |-> maxValue],
    [neg |-> TRUE, u |-> W2p63] }

SeqPlaces == {0, maxDecimalPlaces - 1, maxDecimalPlaces}

NoArg == [a |-> ZeroF24, b |-> ZeroF24]

Init ==
  /\ x = ZeroF24
  /\ y = ZeroF24
  /\ z = ZeroF24
  /\ op = "none"
  /\ arg = NoArg
  /\ obs = NoObs
  /\ steps = 0

Running == steps < MaxSteps /\ ~obs.panic

\* the arithmetic of the model is followed on operands whose limbs are
\* below 10^9
inRange(f) == f.nan \/ limbsInRange(f)

\* the caller stores the result r of the call named name
Store(name, a, b, r) ==
  /\ z' = r
  /\ x' = r
  /\ y' = x
  /\ op' = name
  /\ arg' = [a |-> a, b |-> b]
  /\ steps' = steps + 1

DoFromString ==
  /\ Running
  /\ \E s \in StringInputs :
       LET returned(r) ==
             /\ Store("FromString", ZeroF24, ZeroF24, r.z)
             /\ obs' = [NoObs EXCEPT !.err = r.err, !.kind = r.kind]
       IN returned(FromString(s))

DoFromInt ==
  /\ Running
  /\ \E v \in IntInputs :
       /\ Store("FromInt", ZeroF24, ZeroF24, f24Int(v.neg, v.u))
       /\ obs' = NoObs

\* the two operand orders of a binary call
Operands == {<<x, y>>, <<y, x>>}

DoAdd ==
  /\ Running
  /\ inRange(x) /\ inRange(y)
  /\ \E p \in Operands : Store("Add", p[1], p[2], add(p[1], p[2]))
  /\ obs' = NoObs

DoSub ==
  /\ Running
  /\ inRange(x) /\ inRange(y)
  /\ \E p \in Operands : Store("Sub", p[1], p[2], sub(p[1], p[2]))
  /\ obs' = NoObs

\* a call that may panic: the result is stored, or the run ends
Call(name, a, b, r) ==
  IF r.panic
    THEN /\ obs' = [NoObs EXCEPT !.panic = TRUE]
         /\ op' = name
         /\ arg' = [a |-> a, b |-> b]
         /\ steps' = steps + 1
         /\ UNCHANGED <<x, y, z>>
    ELSE /\ Store(name, a, b, r.z)
         /\ obs' = NoObs

DoMulCall ==
  /\ Running
  /\ inRange(x) /\ inRange(y)
  /\ \E p \in Operands : Call("Mul", p[1], p[2], mul(p[1], p[2]))

\* a division whose retry loop runs past MaxRetry passes is not followed
DoDivCall ==
  /\ Running
  /\ inRange(x) /\ inRange(y)
  /\ \E p \in Operands :
       LET returned(r) == ~r.spin /\ Call("Div", p[1], p[2], r)
       IN returned(div(p[1], p[2]))

DoRoundCall ==
  /\ Running
  /\ inRange(x)
  /\ \E places \in SeqPlaces, mode \in Modes :
       Call("Round", x, ZeroF24, round(x, places, mode))

DoNeg ==
  /\ Running
  /\ Store("Neg", x, ZeroF24, negate(x))
  /\ obs' = NoObs

DoAbs ==
  /\ Running
  /\ Store("Abs", x, ZeroF24, abs(x))
  /\ obs' = NoObs

Next ==
  \/ DoFromString
  \/ DoFromInt
  \/ DoAdd
  \/ DoSub
  \/ DoMulCall
  \/ DoDivCall
  \/ DoRoundCall
  \/ DoNeg
  \/ DoAbs

Spec == Init /\ [][Next]_vars

\* the values a caller holds after a call
Held == {x, y, z}

\* C4: after any sequence of FromString, FromInt, Add, Sub, Mul, Div, Round,
\* Neg and Abs, every value that is not NaN has each of its six limb
\* magnitudes strictly below 10^9
C4_LimbsBelowRadix == \A v \in Held : ~v.nan => limbsInRange(v)

C6_ZeroNeverNegative ==
  \A v \in Held : ~(isZero(v) /\ ~v.nan /\ ~v.unf /\ v.neg)

\* C7: negate is an involution: for every held value that is not NaN,
\* negate(negate(v)) has exactly the limbs and flags of v
C7_NegateInvolution == \A v \in Held : ~v.nan => negate(negate(v)) = v

---------------------------------------------------------------------------
(* SpecCmp: Numeric.Cmp applied once to a chosen pair, in both orders      *)

CmpInputs ==
  { ZeroF24,
    f24Of(<<0, 1, 0, 0, 0, 0>>),
    f24Of(<<0, 2, 0, 0, 0, 0>>),
    setNeg(f24Of(<<0, 1, 0, 0, 0, 0>>), TRUE),
    setNeg(f24Of(<<0, 2, 0, 0, 0, 0>>), TRUE),
    setUnderflow(f24Of(<<0, 1, 0, 0, 0, 0>>), TRUE),
    setUnderflow(setNeg(f24Of(<<0, 1, 0, 0, 0, 0>>), TRUE), TRUE),
    setUnderflow(ZeroF24, TRUE),
    overflow(FALSE),
    overflow(TRUE),
    setUnderflow(overflow(FALSE), TRUE),
    NaNF24,
    setNeg(NaNF24, TRUE) }

InitCmp ==
  /\ x \in CmpInputs
  /\ y \in CmpInputs
  /\ z = ZeroF24
  /\ op = "none"
  /\ arg = 0
  /\ obs = NoObs
  /\ steps = 0

\* Numeric.Cmp: cmp = compare(x, y) and rev = compare(y, x)
DoCompare ==
  /\ op = "none"
  /\ obs' = [obs EXCEPT !.cmp = compare(x, y), !.rev = compare(y, x)]
  /\ op' = "compare"
  /\ steps' = steps + 1
  /\ UNCHANGED <<x, y, z, arg>>

SpecCmp == InitCmp /\ [][DoCompare]_vars

\* C8: overflow dominates in its sign's direction: for a positive overflowed
\* x and a positive y that is neither NaN nor overflowed, compare(x, y) = 1
\* and compare(y, x) = -1; for a negative overflowed x and a negative y
\* that is neither NaN nor overflowed, compare(x, y) = -1
C8_OverflowDominates ==
  (op = "compare" /\ ~x.nan /\ x.ovf /\ ~y.nan /\ ~y.ovf /\ x.neg = y.neg)
    => IF x.neg THEN obs.cmp = 0 - 1 ELSE obs.cmp = 1 /\ obs.rev = 0 - 1

\* C9: compare(x, y) = -1 whenever x is NaN, for every y including NaN;
\* compare(x, y) = 1 whenever y is NaN and x is not; compare never returns 0
\* when an operand is NaN
C9_NaNOrdering ==
  op = "compare" =>
    /\ x.nan => obs.cmp = 0 - 1
    /\ (y.nan /\ ~x.nan) => obs.cmp = 1
    /\ (x.nan \/ y.nan) => obs.cmp # 0 /\ obs.rev # 0

\* two NaNs were compared, and a NaN with a value of the other sign
C9_NaNCompared ==
  /\ op = "compare"
  /\ x.nan /\ y.nan /\ x.neg # y.neg
  /\ obs.cmp = 0 - 1 /\ obs.rev = 0 - 1

---------------------------------------------------------------------------
(* SpecAdd: Numeric.Add applied once to a chosen pair                      *)

AddLimbs ==
  { <<0, 0, 0, 0, 0, 0>>,
    <<0, 1, 0, 0, 0, 0>>,
    <<0, 0, 0, 0, 0, 1>>,
    <<0, 0, 500000000, 0, 0, 0>>,
    <<1, 0, 0, 0, 0, 0>>,
    <<0, 999999999, 999999999, 999999999, 999999999, 999999999>>,
    <<499999999, 999999999, 999999999, 999999999, 999999999, 999999999>>,
    <<500000000, 0, 0, 0, 0, 1>>,
    <<999999999, 999999999, 999999999, 999999999, 999999999, 999999999>> }

AddInputs ==
  { f24Of(l) : l \in AddLimbs }
    \cup { setNeg(f24Of(l), TRUE) : l \in AddLimbs }
    \cup { setUnderflow(f24Of(<<0, 0, 0, 0, 0, 1>>), TRUE),
           setUnderflow(setNeg(ZeroF24, TRUE), TRUE),
           overflow(FALSE),
           NaNF24 }

InitAdd ==
  /\ x \in AddInputs
  /\ y \in AddInputs
  /\ z = ZeroF24
  /\ op = "none"
  /\ arg = 0
  /\ obs = NoObs
  /\ steps = 0

\* Numeric.Add: z = add(x, y)
DoAddPair ==
  /\ op = "none"
  /\ z' = add(x, y)
  /\ op' = "add"
  /\ steps' = steps + 1
  /\ UNCHANGED <<x, y, arg, obs>>

SpecAdd == InitAdd /\ [][DoAddPair]_vars

\* f is the value with magnitude w (an integer scaled by 10^36) and, unless
\* w is zero, the sign neg; or the canonical overflow with that sign when w
\* has more than 54 decimal digits
isExactly(f, w, neg) ==
  IF Len(w) > 18
    THEN ~f.nan /\ f.ovf /\ f.neg = neg /\ \A i \in Limbs : val(f, i) = maxDigit
    ELSE /\ ~f.nan /\ ~f.ovf
         /\ \A i \in Limbs : val(f, i) = limbOfWide(w, i)
         /\ w # <<>> => f.neg = neg

\* C11: for x and y without the NaN or overflow flag, add(x, y) is the exact
\* signed sum (the limbs of |x + y|, with the sign of the larger magnitude
\* when the signs differ) when |x + y| < 10^18, and the canonical overflow
\* with the common sign when same-sign magnitudes sum to 10^18 or more
C11_AddExact ==
  (op = "add" /\ ~x.nan /\ ~x.ovf /\ ~y.nan /\ ~y.ovf) =>
    LET sum(mx, my) ==
          IF x.neg = y.neg THEN isExactly(z, WAdd(mx, my), x.neg)
          ELSE IF WCmp(mx, my) >= 0 THEN isExactly(z, WSub(mx, my), x.neg)
          ELSE isExactly(z, WSub(my, mx), y.neg)
    IN sum(magnitude(x), magnitude(y))

\* a subtraction that borrowed through every limb: 1 + (-10^-36)
C11_AddBorrowed ==
  /\ op = "add"
  /\ noFlags(x) /\ noFlags(y) /\ ~x.neg /\ y.neg
  /\ val(x, 1) = 1 /\ val(y, lowIndex) = 1
  /\ val(z, 1) = 0 /\ \A i \in 2..lowIndex : val(z, i) = maxDigit
  /\ ~z.neg

---------------------------------------------------------------------------
(* Numeric.Mul measured against the exact product                          *)

\* C12: for x and y without NaN, overflow or underflow flag: if
\* |x * y| < 10^18 then mul(x, y) has magnitude floor(|x| * |y| * 10^36) /
\* 10^36 and the underflow flag exactly when the true product has non-zero
\* digits beyond the 36th fractional place; if |x * y| >= 10^18 the result
\* is the canonical overflow
C12_MulExact ==
  (op = "mul" /\ noFlags(x) /\ noFlags(y)) =>
    LET product(p) ==
          IF Len(p) > 30
            THEN ~z.nan /\ z.ovf /\ \A i \in Limbs : val(z, i) = maxDigit
            ELSE /\ ~z.nan /\ ~z.ovf
                 /\ \A i \in Limbs : val(z, i) = limbOfWide(SubSeq(p, 13, Len(p)), i)
                 /\ z.unf = (\E k \in 1..min(12, Len(p)) : p[k] # 0)
    IN product(WMul(magnitude(x), magnitude(y)))


---------------------------------------------------------------------------
(* divRem: integer quotient and remainder                                  *)

\* divRem that marks only the quotient NaN and leaves the remainder zero
divRemQuotientOnly(a, b) ==
  [q |-> setNaN(ZeroF24, TRUE), r |-> ZeroF24, panic |-> FALSE, spin |-> FALSE]

\* arith.divRem: w = x / y; a NaN or overflowed w makes both outputs NaN;
\* otherwise q = w truncated to 0 places, u = q * y, r = x - u
divRem(a, b) ==
  LET both(f, w) == [q |-> f, r |-> f, panic |-> w.panic, spin |-> w.spin]
      remainder(q, u) ==
        [q |-> q, r |-> sub(a, u.z), panic |-> u.panic, spin |-> FALSE]
      quotient(q) == remainder(q, mul(q, b))
      divided(w) ==
        IF w.panic \/ w.spin THEN both(ZeroF24, w)
        ELSE IF w.z.nan \/ w.z.ovf THEN both(setNaN(ZeroF24, TRUE), w)
        ELSE quotient(round(w.z, 0, RoundTowards).z)
  IN divided(div(a, b))

---------------------------------------------------------------------------
(* SpecDivRem: Numeric.DivRem applied once to a chosen pair                *)

DivRemLimbsX ==
  { <<0, 22, 0, 0, 0, 0>>,
    <<0, 7, 0, 0, 0, 0>>,
    <<0, 6, 0, 0, 0, 0>>,
    <<0, 1, 0, 0, 0, 0>>,
    <<0, 0, 500000000, 0, 0, 0>>,
    <<0, 10, 500000000, 0, 0, 0>>,
    <<100000000, 0, 0, 0, 0, 0>>,
    <<1, 0, 0, 0, 0, 1>>,
    <<0, 0, 0, 0, 0, 1>>,
    <<999999999, 999999999, 999999999, 999999999, 999999999, 999999999>>,
    <<0, 0, 0, 0, 0, 0>> }

DivRemLimbsY ==
  { <<0, 7, 0, 0, 0, 0>>,
    <<0, 3, 0, 0, 0, 0>>,
    <<0, 2, 0, 0, 0, 0>>,
    <<0, 2, 500000000, 0, 0, 0>>,
    <<0, 1, 0, 2, 1, 0>>,
    <<1, 0, 1, 0, 0, 0>>,
    <<1, 0, 0, 0, 0, 0>>,
    <<0, 1, 0, 0, 0, 0>>,
    <<0, 0, 0, 0, 0, 0>> }

DivRemFlagged ==
  { setNeg(f24Of(<<0, 22, 0, 0, 0, 0>>), TRUE),
    setNeg(f24Of(<<0, 7, 0, 0, 0, 0>>), TRUE),
    setUnderflow(f24Of(<<0, 22, 0, 0, 0, 0>>), TRUE),
    overflow(FALSE),
    NaNF24 }

DivRemInputsX == { f24Of(l) : l \in DivRemLimbsX } \cup DivRemFlagged

DivRemInputsY == { f24Of(l) : l \in DivRemLimbsY } \cup DivRemFlagged

InitDivRem ==
  /\ x \in DivRemInputsX
  /\ y \in DivRemInputsY
  /\ z = ZeroF24
  /\ op = "none"
  /\ arg = ZeroF24
  /\ obs = NoObs
  /\ steps = 0

\* Numeric.DivRem: z is the quotient, arg the remainder
DoDivRem ==
  /\ op = "none"
  /\ LET returned(d) ==
           /\ ~d.spin
           /\ z' = d.q
           /\ arg' = d.r
           /\ obs' = [obs EXCEPT !.panic = d.panic]
     IN returned(divRem(x, y))
  /\ op' = "divRem"
  /\ steps' = steps + 1
  /\ UNCHANGED <<x, y>>

SpecDivRem == InitDivRem /\ [][DoDivRem]_vars

\* a signed wide integer: the magnitude of f scaled by 10^(36 + 3 * shift)
signedWide(m, neg, shift) ==
  [m |-> IF m = <<>> THEN <<>> ELSE [k \in 1..shift |-> 0] \o m, neg |-> neg]

signedAdd(a, b) ==
  IF a.neg = b.neg THEN [m |-> WAdd(a.m, b.m), neg |-> a.neg]
  ELSE IF WCmp(a.m, b.m) >= 0 THEN [m |-> WSub(a.m, b.m), neg |-> a.neg]
  ELSE [m |-> WSub(b.m, a.m), neg |-> b.neg]

signedEqual(a, b) == a.m = b.m /\ (a.m = <<>> \/ a.neg = b.neg)

\* C13: divRem identity: for x and y with neither the NaN nor the overflow
\* flag and y # 0, the call returns q and r where q has its four fractional
\* limbs zero, q * y + r = x, and r is zero or has the sign of x.
C13_DivRemIdentity ==
  (op = "divRem" /\ ~x.nan /\ ~x.ovf /\ ~y.nan /\ ~y.ovf /\ ~isZero(y)) =>
    /\ ~obs.panic
    /\ ~z.nan /\ ~arg.nan
    /\ \A i \in decIndex..lowIndex : val(z, i) = 0
    /\ signedEqual(
         signedAdd(signedWide(WMul(magnitude(z), magnitude(y)), z.neg # y.neg, 0),
                   signedWide(magnitude(arg), arg.neg, 12)),
         signedWide(magnitude(x), x.neg, 12))
    /\ isZero(arg) \/ arg.neg = x.neg


---------------------------------------------------------------------------
(* SpecArith: one of Add, Sub, Mul, Div, DivRem applied once to a pair     *)
(* that may hold NaN, zero, overflow or underflow operands                 *)

ArithInputs ==
  { NaNF24,
    setNeg(NaNF24, TRUE),
    ZeroF24,
    setUnderflow(ZeroF24, TRUE),
    setUnderflow(setNeg(ZeroF24, TRUE), TRUE),
    f24Of(<<0, 1, 0, 0, 0, 0>>),
    setNeg(f24Of(<<0, 2, 0, 0, 0, 0>>), TRUE),
    f24Of(<<0, 7, 500000000, 0, 0, 0>>),
    setUnderflow(f24Of(<<0, 0, 0, 0, 0, 1>>), TRUE),
    f24Of(<<999999999, 999999999, 999999999, 999999999, 999999999, 999999999>>),
    overflow(FALSE),
    overflow(TRUE) }

ArithOps == {"add", "sub", "mul", "div", "divRem"}

InitArith ==
  /\ x \in ArithInputs
  /\ y \in ArithInputs
  /\ z = ZeroF24
  /\ op = "none"
  /\ arg = ZeroF24
  /\ obs = NoObs
  /\ steps = 0

\* the Numeric method called name: z is the result (the quotient of DivRem),
\* r the remainder of DivRem
arithCall(name, a, b) ==
  LET value(f) == [z |-> f, r |-> ZeroF24, panic |-> FALSE, spin |-> FALSE]
      single(c) == [z |-> c.z, r |-> ZeroF24, panic |-> c.panic, spin |-> FALSE]
      divided(c) == [z |-> c.z, r |-> ZeroF24, panic |-> c.panic, spin |-> c.spin]
      pair(c) == [z |-> c.q, r |-> c.r, panic |-> c.panic, spin |-> c.spin]
  IN CASE name = "add" -> value(add(a, b))
       [] name = "sub" -> value(sub(a, b))
       [] name = "mul" -> single(mul(a, b))
       [] name = "div" -> divided(div(a, b))
       [] name = "divRem" -> pair(divRem(a, b))

DoArith ==
  /\ op = "none"
  /\ \E name \in ArithOps :
       LET returned(c) ==
             /\ ~c.spin
             /\ z' = c.z
             /\ arg' = c.r
             /\ obs' = [obs EXCEPT !.panic = c.panic]
             /\ op' = name
       IN returned(arithCall(name, x, y))
  /\ steps' = steps + 1
  /\ UNCHANGED <<x, y>>

SpecArith == InitArith /\ [][DoArith]_vars

\* C14: NaN is absorbing: add, sub, mul and div return a value with the NaN
\* flag whenever either operand is NaN; div also returns NaN whenever all
\* six limbs of y are zero; divRem returns NaN for both outputs in those
\* cases.
C14_NaNAbsorbing ==
  /\ (op \in {"add", "sub", "mul", "div"} /\ (x.nan \/ y.nan))
       => ~obs.panic /\ z.nan
  /\ (op = "div" /\ isZero(y)) => ~obs.panic /\ z.nan
  /\ (op = "divRem" /\ (x.nan \/ y.nan \/ isZero(y)))
       => ~obs.panic /\ z.nan /\ arg.nan

\* DivRem of a number by the underflow-flagged zero gave NaN twice
C14_DivRemByZero ==
  /\ op = "divRem" /\ ~x.nan /\ ~y.nan /\ isZero(y) /\ y.unf
  /\ z.nan /\ arg.nan


---------------------------------------------------------------------------
(* Formatting: f24.Digits and digits.String                                *)

\* the characters '0' + v for the values 10..21 a limb above 10^9 can give
HighChars == <<":", ";", "<", "=", ">", "?", "@", "A", "B", "C", "D", "E">>

\* the byte '0' + v written by digits.String
byteChar(v) == IF v < 10 THEN DigitChars[v + 1] ELSE HighChars[v - 9]

\* the inner loop of f24.Digits over an integer limb: u = v / mul,
\* v = v % mul, leading zeros skipped
RECURSIVE wholeDigits(_, _, _)
wholeDigits(st, v, m) ==
  IF m = 0 THEN st
  ELSE wholeDigits(IF st.lead \/ v \div m # 0
                     THEN [st EXCEPT !.v[st.pos] = (v \div m) % 256,
                                     !.pos = @ + 1,
                                     !.lead = TRUE]
                     ELSE st,
                   v % m, m \div 10)

\* the inner loop of f24.Digits over a fractional limb
RECURSIVE fracDigits(_, _, _)
fracDigits(st, v, m) ==
  IF m = 0 THEN st
  ELSE fracDigits([st EXCEPT !.v[st.pos] = (v \div m) % 256,
                             !.pos = @ + 1,
                             !.count = IF v \div m # 0 THEN st.pos + 1 ELSE @],
                  v % m, m \div 10)

\* the loop of f24.Digits over the integer limbs 0 and 1
RECURSIVE digitsWhole(_, _, _)
digitsWhole(st, f, i) ==
  IF i >= decIndex THEN [st EXCEPT !.pointIdx = st.pos, !.count = st.pos]
  ELSE digitsWhole(IF ~st.lead /\ val(f, i) = 0 THEN st
                   ELSE wholeDigits(st, val(f, i), decMul),
                   f, i + 1)

\* digitsFrac that does not advance over a zero limb
RECURSIVE digitsFracNoSkip(_, _, _)
digitsFracNoSkip(st, f, i) ==
  IF i >= lenF24 THEN st
  ELSE digitsFracNoSkip(IF val(f, i) = 0 THEN st
                        ELSE fracDigits(st, val(f, i), decMul),
                        f, i + 1)

\* the loop of f24.Digits over the fractional limbs
RECURSIVE digitsFrac(_, _, _)
digitsFrac(st, f, i) ==
  IF i >= lenF24 THEN st
  ELSE digitsFrac(IF val(f, i) = 0 THEN [st EXCEPT !.pos = @ + radixDigits]
                  ELSE fracDigits(st, val(f, i), decMul),
                  f, i + 1)

\* f24.Digits
Digits(f) ==
  LET flagged == [ZeroDigits EXCEPT !.isNeg = f.neg, !.isNaN = f.nan,
                                    !.isOverflow = f.ovf, !.isUnderflow = f.unf]
      filled(st) == [flagged EXCEPT !.v = st.v, !.pointIdx = st.pointIdx,
                                    !.count = st.count]
  IN IF f.nan THEN flagged
     ELSE filled(digitsFrac(digitsWhole([v |-> ZeroDigits.v, pos |-> 0, lead |-> FALSE,
                                         pointIdx |-> 0, count |-> 0], f, 0),
                            f, decIndex))

\* stringFrac that drops the zeros in front of a later non-zero decimal digit
RECURSIVE stringFracNoZeros(_, _, _, _, _, _)
stringFracNoZeros(d, i, dp, zeros, dotted, out) ==
  IF i >= d.count \/ dp = maxDecimalPlaces THEN out
  ELSE IF d.v[i] = 0 THEN stringFracNoZeros(d, i + 1, dp + 1, zeros + 1, dotted, out)
  ELSE stringFracNoZeros(d, i + 1, dp + 1, 0, TRUE,
                         out \o (IF dotted THEN <<>> ELSE <<".">>)
                             \o <<byteChar(d.v[i])>>)

\* the loop of digits.String over d.v[pointIdx:count]
RECURSIVE stringFrac(_, _, _, _, _, _)
stringFrac(d, i, dp, zeros, dotted, out) ==
  IF i >= d.count \/ dp = maxDecimalPlaces THEN out
  ELSE IF d.v[i] = 0 THEN stringFrac(d, i + 1, dp + 1, zeros + 1, dotted, out)
  ELSE stringFrac(d, i + 1, dp + 1, 0, TRUE,
                  out \o (IF dotted THEN <<>> ELSE <<".">>)
                      \o [k \in 1..zeros |-> "0"]
                      \o <<byteChar(d.v[i])>>)

\* digits.String, for digits made by f24.Digits (count <= precision)
String(d) ==
  LET prefix == (IF d.isUnderflow THEN <<"~">> ELSE <<>>)
                  \o (IF d.isNeg THEN <<"-">> ELSE <<>>)
                  \o (IF d.isOverflow THEN <<"<">> ELSE <<>>)
  IN IF d.isNaN THEN <<"N", "a", "N">>
     ELSE IF d.count = 0 THEN prefix \o <<"0">>
     ELSE stringFrac(d, d.pointIdx, 0, 0, FALSE,
                     prefix \o (IF d.pointIdx = 0 THEN <<"0">>
                                ELSE [k \in 1..d.pointIdx |-> byteChar(d.v[k - 1])]))

---------------------------------------------------------------------------
(* SpecText: MarshalText of a chosen value, then UnmarshalText of the text *)

TextLimbs ==
  { <<0, 0, 0, 0, 0, 0>>,
    <<0, 1, 0, 0, 0, 0>>,
    <<0, 0, 500000000, 0, 0, 0>>,
    <<0, 0, 0, 0, 0, 1>>,
    <<0, 0, 0, 5, 0, 0>>,
    <<0, 10, 50000000, 0, 0, 100000000>>,
    <<1, 0, 0, 0, 0, 0>>,
    <<12, 0, 0, 0, 0, 0>>,
    <<123456789, 987654321, 123456789, 0, 102030405, 60708090>>,
    <<100000000, 0, 0, 0, 0, 0>>,
    <<999999999, 999999999, 999999999, 999999999, 999999999, 999999999>> }

TextInputs ==
  { setUnderflow(setNeg(f24Of(l), s), u) : l \in TextLimbs, s \in BOOLEAN, u \in BOOLEAN }
    \cup { setUnderflow(overflow(s), u) : s \in BOOLEAN, u \in BOOLEAN }
    \cup { NaNF24 }

InitText ==
  /\ x \in TextInputs
  /\ y = ZeroF24
  /\ z = ZeroF24
  /\ op = "none"
  /\ arg = <<>>
  /\ obs = NoObs
  /\ steps = 0

\* Numeric.MarshalText: the bytes of n.String()
DoMarshalText ==
  /\ op = "none"
  /\ arg' = String(Digits(x))
  /\ op' = "marshal"
  /\ steps' = steps + 1
  /\ UNCHANGED <<x, y, z, obs>>

\* Numeric.UnmarshalText into z: an error leaves z as it was
DoUnmarshalText ==
  /\ op = "marshal"
  /\ LET returned(r) ==
           /\ z' = r.n
           /\ obs' = [obs EXCEPT !.err = r.err, !.kind = r.kind]
     IN returned(UnmarshalText(z, arg))
  /\ op' = "unmarshal"
  /\ steps' = steps + 1
  /\ UNCHANGED <<x, y, arg>>

NextText == DoMarshalText \/ DoUnmarshalText

SpecText == InitText /\ [][NextText]_vars

\* the data invariants of a Numeric: limbs below 10^9, an overflow has all
\* limbs 999999999, an exact zero is not negative
satisfiesInvariants(f) ==
  /\ limbsInRange(f)
  /\ f.ovf => \A i \in Limbs : val(f, i) = maxDigit
  /\ ~(isZero(f) /\ ~f.unf /\ f.neg)

\* C15: text round trip: for every non-NaN value that satisfies the data
\* invariants, with any combination of the negative, overflow and underflow
\* flags, UnmarshalText(MarshalText(n)) succeeds and yields the same six
\* limbs and four flags.
C15_TextRoundTrip ==
  (op = "unmarshal" /\ ~x.nan /\ satisfiesInvariants(x)) => ~obs.err /\ z = x

\* a negative overflow with the underflow flag went through "~-<999..."
C15_FlaggedOverflowRead ==
  /\ op = "unmarshal" /\ x.ovf /\ x.neg /\ x.unf /\ ~x.nan
  /\ SubSeq(arg, 1, 4) = <<"~", "-", "<", "9">>
  /\ Len(arg) = 58
  /\ z = x /\ ~obs.err


---------------------------------------------------------------------------
(* SpecParse: FromString applied once to a chosen text                     *)

MaxText == 3

\* the character ch written n times
repeated(ch, n) == [k \in 1..n |-> ch]

ParsePrefixes == { <<>>, <<"-">>, <<"<">>, <<"~">>, <<"~", "-", "<">> }

ParseMantissas ==
  { <<"1">>, <<"0">>, <<"0", ".", "5">>, <<"1", "2", ".", "5">>, <<"0", ".", "0", "1">>,
    repeated("9", 18),
    repeated("9", 19),
    <<"1">> \o repeated("0", 18),
    repeated("0", 20) \o <<"7">>,
    repeated("9", 18) \o <<".">> \o repeated("9", 36),
    repeated("9", 18) \o <<".">> \o repeated("9", 37),
    <<"5", ".">> \o repeated("0", 36) \o <<"1">>,
    <<"0", ".">> \o repeated("0", 36) \o <<"1">>,
    <<"1", ".">> \o repeated("3", 56),
    repeated("9", 55) }

ParseExponents ==
  { <<>>, <<"e", "1">>, <<"e", "-", "1">>, <<"E", "+", "2">>, <<"e", "1", "7">>,
    <<"e", "1", "9">>, <<"e", "-", "4", "0">> }

SymbolChars == {"-", "+", "~", "<", "1", "e", "."}

\* written numbers, every text of up to MaxText symbols, and some longer
\* texts with a sign among the digits
ParseInputs ==
  { p \o m \o e : p \in ParsePrefixes, m \in ParseMantissas, e \in ParseExponents }
    \cup UNION { [1..n -> SymbolChars] : n \in 1..MaxText }
    \cup { <<>>, <<" ">>, <<"N", "a", "N">>, <<"-", "N", "a", "N">>, <<" ", "1", " ">>,
           <<"1", "x">>,
           <<"1", "2", "-", "3">>, <<"1", "+", "e", "5">>, <<"1", "e", "5", "-">>,
           <<"1", "e", "-", "5">>, <<"1", "e", "+", "-", "5">>,
           <<"-", "~", "+", "1">>, <<"+", "<", "-", "1">>, <<"~", "-", "<", "~", "1">>,
           <<"<", "+", "~", "<", "1">> }

InitParse ==
  /\ arg \in ParseInputs
  /\ x = ZeroF24
  /\ y = ZeroF24
  /\ z = ZeroF24
  /\ op = "none"
  /\ obs = NoObs
  /\ steps = 0

\* FromString(arg): z is the Numeric returned, obs the error
DoParse ==
  /\ op = "none"
  /\ LET returned(r) ==
           /\ z' = r.z
           /\ obs' = [NoObs EXCEPT !.err = r.err, !.kind = r.kind]
     IN returned(FromString(arg))
  /\ op' = "parse"
  /\ steps' = steps + 1
  /\ UNCHANGED <<x, y, arg>>

SpecParse == InitParse /\ [][DoParse]_vars

\* How a text reads as a written number: its prefix symbols, ...
RECURSIVE prefixLen(_, _)
prefixLen(s, n) ==
  IF n < Len(s) /\ s[n + 1] \in {"~", "<", "-", "+"} THEN prefixLen(s, n + 1) ELSE n

\* ... the position of the exponent marker in the rest (one past the end
\* when there is none), ...
markerPos(b) ==
  IF \E k \in 1..Len(b) : b[k] \in {"e", "E"}
    THEN CHOOSE k \in 1..Len(b) : b[k] \in {"e", "E"} /\ \A j \in 1..(k - 1) : b[j] \notin {"e", "E"}
    ELSE Len(b) + 1

\* ... the position of the decimal point in the mantissa, ...
pointPos(m) ==
  IF \E k \in 1..Len(m) : m[k] = "."
    THEN CHOOSE k \in 1..Len(m) : m[k] = "." /\ \A j \in 1..(k - 1) : m[j] # "."
    ELSE Len(m) + 1

RECURSIVE leadingZeros(_, _)
leadingZeros(ds, n) ==
  IF n < Len(ds) /\ ds[n + 1] = "0" THEN leadingZeros(ds, n + 1) ELSE n

RECURSIVE numberOf(_, _, _)
numberOf(ds, k, acc) ==
  IF k > Len(ds) THEN acc ELSE numberOf(ds, k + 1, acc * 10 + digitOf(ds[k]))

\* ... and the parts of a well-formed number: digits with at most one
\* point, then possibly a marker, an optional sign and exponent digits
written(s) ==
  LET parts(b) ==
        LET split(m, e) ==
              LET signed == e # <<>> /\ e[1] \in {"+", "-"}
                  ed == IF signed THEN Tail(e) ELSE e
                  ds == SelectSeq(m, isDigitChar)
              IN [wellFormed |-> /\ ds # <<>>
                                 /\ Len(m) - Len(ds) <= 1
                                 /\ \A k \in 1..Len(m) : isDigitChar(m[k]) \/ m[k] = "."
                                 /\ (markerPos(b) <= Len(b)) => ed # <<>>
                                 /\ \A k \in 1..Len(ed) : isDigitChar(ed[k]),
                  whole |-> pointPos(m) - 1,
                  digits |-> ds,
                  negExp |-> signed /\ e[1] = "-",
                  expDigits |-> ed]
        IN split(SubSeq(b, 1, markerPos(b) - 1), SubSeq(b, markerPos(b) + 1, Len(b)))
  IN parts(SubSeq(s, prefixLen(s, 0) + 1, Len(s)))

hasOverflowPrefix(s) == \E k \in 1..prefixLen(s, 0) : s[k] = "<"

\* the exponent of a well-formed number
exponentOf(w) ==
  IF w.negExp THEN 0 - numberOf(w.expDigits, 1, 0) ELSE numberOf(w.expDigits, 1, 0)

\* the number of integer digits of the written value from its first
\* non-zero digit on, after the exponent is applied
integerDigits(w) ==
  IF leadingZeros(w.digits, 0) = Len(w.digits) THEN 0
  ELSE max(0, w.whole + exponentOf(w) - leadingZeros(w.digits, 0))

\* the number of decimal digits written, after the exponent is applied
decimalDigits(w) == Len(w.digits) - w.whole - exponentOf(w)

\* C16: parse sets the overflow flag exactly when the input carries the '<'
\* prefix or the written value, after applying the exponent, has more than
\* 18 significant integer digits; fractional digits beyond the 36th never
\* cause overflow, they only set underflow.
C16_OverflowExactly ==
  (op = "parse" /\ ~obs.err /\ written(arg).wellFormed) =>
    LET flagged(w) ==
          /\ z.ovf = (hasOverflowPrefix(arg) \/ integerDigits(w) > maxWholeDigits)
          /\ (~z.ovf /\ decimalDigits(w) > maxDecimalPlaces) => z.unf
    IN flagged(written(arg))


\* the digit portion of a text: what follows its prefix symbols
digitPortion(s) == SubSeq(s, prefixLen(s, 0) + 1, Len(s))

\* C17: after the prefix scan a '+' or '-' is accepted only directly after
\* the exponent marker; every input with a sign character anywhere else in
\* the digit portion (before the marker, or with no marker at all) is
\* rejected with a syntax error and yields no value.
C17_SignOnlyAfterMarker ==
  op = "parse" =>
    LET misplaced(b) ==
          \E k \in 1..Len(b) : b[k] \in {"+", "-"} /\ k # markerPos(b) + 1
    IN misplaced(digitPortion(arg)) => obs.err /\ z = ZeroF24


\* the errors parse can return before it tests for digits
EarlierErrors ==
  { "ErrMultipleUnderflowSymbols", "ErrMultipleOverflowSymbols", "ErrMultipleMinusSigns",
    "ErrMultiplePlusSigns", "ErrInvalidDecimalPoint", "ErrMultipleExponents",
    "ErrMultipleExponentSigns", "ErrInvalidCharacter", "ErrNoExponentValue" }

\* no digit in the digit portion before its exponent marker
noMantissaDigit(s) ==
  LET none(b) == \A k \in 1..(markerPos(b) - 1) : ~isDigitChar(b[k])
  IN none(digitPortion(s))

\* C18: for every non-empty input other than the literal NaN that contains
\* no mantissa digit and triggers no earlier syntax error, parse returns
\* ErrNoDigitsInInput and never a value (an input of spaces only counts as
\* empty here).
C18_NoDigitsError ==
  (op = "parse" /\ TrimSpace(arg) # <<>> /\ arg # <<"N", "a", "N">>
     /\ noMantissaDigit(arg)
     /\ obs.kind \notin EarlierErrors)
    => obs.err /\ obs.kind = "ErrNoDigitsInInput" /\ z = ZeroF24


\* position k of the prefix of t repeats a symbol: a second '~', a second
\* '<', or a second sign character
repeatsSymbol(t, k) ==
  \E j \in 1..(k - 1) :
    \/ t[k] = "~" /\ t[j] = "~"
    \/ t[k] = "<" /\ t[j] = "<"
    \/ t[k] \in {"+", "-"} /\ t[j] \in {"+", "-"}

\* the error the claim names for a repeated symbol
repeatError(ch) ==
  CASE ch = "~" -> "ErrMultipleUnderflowSymbols"
    [] ch = "<" -> "ErrMultipleOverflowSymbols"
    [] ch = "-" -> "ErrMultipleMinusSigns"
    [] ch = "+" -> "ErrMultiplePlusSigns"

\* C19: in the prefix scan, whatever the order of the prefix symbols, a
\* second '~' returns ErrMultipleUnderflowSymbols, a second '<' returns
\* ErrMultipleOverflowSymbols, and the second sign character returns
\* ErrMultipleMinusSigns when it is '-' and ErrMultiplePlusSigns when it
\* is '+' (the first repeated symbol of the prefix decides).
C19_PrefixRepeats ==
  op = "parse" =>
    LET judged(t) ==
          \A k \in 1..prefixLen(t, 0) :
            (repeatsSymbol(t, k) /\ \A j \in 1..(k - 1) : ~repeatsSymbol(t, j))
              => obs.err /\ obs.kind = repeatError(t[k]) /\ z = ZeroF24
    IN judged(TrimSpace(arg))

\* "+<-1": the '-' after a '+' and a '<' gave ErrMultipleMinusSigns
C19_MinusAfterPlus ==
  /\ op = "parse" /\ arg = <<"+", "<", "-", "1">>
  /\ obs.err /\ obs.kind = "ErrMultipleMinusSigns"


---------------------------------------------------------------------------
(* SpecInt: FromInt applied once to a chosen integer                       *)

\* magnitudes of int64 values as wide naturals
IntMagnitudes ==
  { W(n) : n \in 0..24 }
    \cup { W(999), W(1000), W(123456), W(999999999), W(1000000000), W(1000000001),
           W(2147483647),
           <<0, 0, 0, 0, 0, 100>>,
           <<321, 654, 987, 321, 654, 987>>,
           <<998, 999, 999, 999, 999, 999>>,
           maxValue,
           <<0, 0, 0, 0, 0, 0, 1>>,
           <<1, 0, 0, 0, 0, 0, 1>>,
           <<807, 775, 854, 36, 372, 223, 9>> }

\* the int64 values: a sign with a magnitude, and the least int64
IntValues ==
  { [neg |-> s, u |-> m] : s \in BOOLEAN, m \in IntMagnitudes \ {<<>>} }
    \cup { [neg |-> FALSE, u |-> <<>>], [neg |-> TRUE, u |-> W2p63] }

InitInt ==
  /\ arg \in IntValues
  /\ x = ZeroF24
  /\ y = ZeroF24
  /\ z = ZeroF24
  /\ op = "none"
  /\ obs = NoObs
  /\ steps = 0

\* FromInt(arg)
DoFromIntOnce ==
  /\ op = "none"
  /\ z' = f24Int(arg.neg, arg.u)
  /\ op' = "fromInt"
  /\ steps' = steps + 1
  /\ UNCHANGED <<x, y, arg, obs>>

SpecInt == InitInt /\ [][DoFromIntOnce]_vars

\* the decimal text of an integer (strconv.FormatInt in base 10): the
\* base-1000 digits from the top one down, the lower ones as three characters
RECURSIVE groupsText(_, _)
groupsText(w, k) ==
  IF k = 0 THEN <<>>
  ELSE <<DigitChars[(w[k] \div 100) + 1], DigitChars[((w[k] \div 10) % 10) + 1],
         DigitChars[(w[k] % 10) + 1]>> \o groupsText(w, k - 1)

decimalText(neg, u) ==
  LET top == IF u[Len(u)] >= 100 THEN <<DigitChars[(u[Len(u)] \div 100) + 1]>> ELSE <<>>
      mid == IF u[Len(u)] >= 10 THEN <<DigitChars[((u[Len(u)] \div 10) % 10) + 1]>> ELSE <<>>
  IN IF u = <<>> THEN <<"0">>
     ELSE (IF neg THEN <<"-">> ELSE <<>>) \o top \o mid
            \o <<DigitChars[(u[Len(u)] % 10) + 1]>> \o groupsText(u, Len(u) - 1)

\* C20: FromInt(i) is exact (no flags, limbs encode |i|, String equals the
\* decimal text of i) for every integer with |i| <= 10^18 - 1 and the
\* canonical overflow with the sign of i for every larger magnitude;
\* equivalently FromInt(i) equals the value parsed from the decimal text
\* of i.
C20_FromIntExact ==
  op = "fromInt" =>
    /\ IF WCmp(arg.u, maxValue) <= 0
         THEN /\ ~z.nan /\ ~z.ovf /\ ~z.unf /\ z.neg = arg.neg
              /\ val(z, 0) = WToInt(WDivRadix(arg.u))
              /\ val(z, 1) = WToInt(WModRadix(arg.u))
              /\ \A i \in decIndex..lowIndex : val(z, i) = 0
              /\ String(Digits(z)) = decimalText(arg.neg, arg.u)
         ELSE z = overflow(arg.neg)
    /\ z = FromString(decimalText(arg.neg, arg.u)).z


---------------------------------------------------------------------------
(* Rounding measured against the nearest multiple of 10^-places            *)

\* 10^k as a wide natural
tenTo(k) == [i \in 1..(k \div 3) |-> 0] \o <<10 ^ (k % 3)>>

\* the multiple of unit nearest to m; a tie goes up when tieAway, else down
nearestMultiple(m, unit, tieAway) ==
  LET chosen(q, c) ==
        WMul(IF c > 0 \/ (c = 0 /\ tieAway) THEN WAdd(q, <<1>>) ELSE q, unit)
      pick(qr) == chosen(qr[1], WCmp(WAdd(qr[2], qr[2]), unit))
  IN pick(WDivMod(m, unit))

\* z is the unflagged value of magnitude w / 10^36
roundedTo(w) ==
  /\ ~obs.panic /\ ~z.nan /\ ~z.ovf
  /\ \A i \in Limbs : val(z, i) = limbOfWide(w, i)

\* C21: RoundHalfDown rounds to nearest: for non-NaN, non-overflow x and
\* 0 <= places <= 35 whose rounded magnitude stays below 10^18, the result
\* is the multiple of 10^-places nearest to x, and the neighbour toward
\* zero only when x lies exactly halfway (every discarded digit counts).
C21_HalfDownNearest ==
  (op = "round" /\ arg.mode = RoundHalfDown /\ ~x.nan /\ ~x.ovf
     /\ arg.places >= 0 /\ arg.places < maxDecimalPlaces) =>
    LET target(w) == Len(w) <= 18 => roundedTo(w)
    IN target(nearestMultiple(magnitude(x), tenTo(maxDecimalPlaces - arg.places), FALSE))


\* C22: RoundHalfUp rounds to nearest with ties away from zero: for
\* non-NaN, non-overflow x and 0 <= places <= 35 whose rounded magnitude
\* stays below 10^18, the result is the multiple of 10^-places nearest to
\* x, exact halves go to the neighbour of larger magnitude, and the sign of
\* x is kept on every non-zero result.
C22_HalfUpNearest ==
  (op = "round" /\ arg.mode = RoundHalfUp /\ ~x.nan /\ ~x.ovf
     /\ arg.places >= 0 /\ arg.places < maxDecimalPlaces) =>
    LET target(w) == Len(w) <= 18 => roundedTo(w) /\ (w # <<>> => z.neg = x.neg)
    IN target(nearestMultiple(magnitude(x), tenTo(maxDecimalPlaces - arg.places), TRUE))

\* -1.5 rounded to 0 places gave -2
C22_NegativeHalfRounded ==
  /\ op = "round" /\ arg.mode = RoundHalfUp /\ arg.places = 0
  /\ x.neg /\ ~x.nan /\ ~x.ovf /\ val(x, 1) = 1 /\ val(x, decIndex) = radixHalfI
  /\ z.neg /\ val(z, 1) = 2 /\ val(z, decIndex) = 0


\* C23: for non-NaN operands the result of add and of sub has the underflow
\* flag whenever either operand has it, in every branch: exact-zero result,
\* ordinary sum or difference, overflowed operand, and overflow produced by
\* the carry out of limb 0.
C23_UnderflowPropagates ==
  (op \in {"add", "sub"} /\ ~x.nan /\ ~y.nan /\ (x.unf \/ y.unf)) => z.unf


---------------------------------------------------------------------------
(* SpecDigits: the package-level parseString applied once to a chosen      *)
(* text; x holds the digits it returns                                     *)

InitDigits ==
  /\ arg \in ParseInputs
  /\ x = ZeroDigits
  /\ y = ZeroF24
  /\ z = ZeroF24
  /\ op = "none"
  /\ obs = NoObs
  /\ steps = 0

DoParseString ==
  /\ op = "none"
  /\ LET returned(r) ==
           /\ x' = r.d
           /\ obs' = [NoObs EXCEPT !.err = r.err, !.kind = r.kind]
     IN returned(parseString(arg))
  /\ op' = "parseString"
  /\ steps' = steps + 1
  /\ UNCHANGED <<y, z, arg>>

SpecDigits == InitDigits /\ [][DoParseString]_vars

\* C24: every digit buffer that parse returns without error satisfies
\* 0 <= pointIdx <= count <= 54, has the underflow flag whenever
\* count - pointIdx > 36 and the overflow flag whenever pointIdx > 18, for
\* every mantissa length and every positive or negative exponent.
C24_DigitsInvariant ==
  (op = "parseString" /\ ~obs.err) =>
    /\ 0 <= x.pointIdx /\ x.pointIdx <= x.count /\ x.count <= precision
    /\ x.count - x.pointIdx > maxDecimalPlaces => x.isUnderflow
    /\ x.pointIdx > maxWholeDigits => x.isOverflow


---------------------------------------------------------------------------
(* SpecConv: f24.Digits of a chosen value, then digits.F24 of the buffer   *)

InitConv ==
  /\ x \in TextInputs
  /\ y = ZeroF24
  /\ z = ZeroF24
  /\ op = "none"
  /\ arg = ZeroDigits
  /\ obs = NoObs
  /\ steps = 0

DoDigits ==
  /\ op = "none"
  /\ arg' = Digits(x)
  /\ op' = "Digits"
  /\ steps' = steps + 1
  /\ UNCHANGED <<x, y, z, obs>>

DoF24 ==
  /\ op = "Digits"
  /\ z' = F24(arg)
  /\ op' = "F24"
  /\ steps' = steps + 1
  /\ UNCHANGED <<x, y, arg, obs>>

NextConv == DoDigits \/ DoF24

SpecConv == InitConv /\ [][NextConv]_vars

\* C25: the limb / digit-buffer conversion is lossless: for every non-NaN
\* value f satisfying the data invariants, F24(Digits(f)) has the same six
\* limb magnitudes and the same sign, overflow and underflow flags as f.
C25_ConversionLossless ==
  (op = "F24" /\ ~x.nan /\ satisfiesInvariants(x)) =>
    /\ \A i \in Limbs : val(z, i) = val(x, i)
    /\ z.neg = x.neg /\ z.ovf = x.ovf /\ z.unf = x.unf /\ ~z.nan

\* a value with zero limbs between non-zero ones came back
C25_InnerZeroLimbBack ==
  /\ op = "F24" /\ ~x.nan /\ ~x.ovf
  /\ val(x, 1) # 0 /\ val(x, 3) = 0 /\ val(x, 4) = 0 /\ val(x, lowIndex) # 0
  /\ arg.pointIdx = 2 /\ arg.count = 30
  /\ z = x


\* C26: add is commutative: for all operands x and y, overflowed and
\* underflowed ones included, add(x, y) and add(y, x) have identical limbs
\* and flags.
C26_AddCommutative ==
  op = "add" => z = add(y, x)


\* C27: mul is commutative: for all operands x and y, zero and overflowed
\* ones included, mul(x, y) and mul(y, x) have identical limbs and flags.
C27_MulCommutative ==
  op = "mul" => z = mul(y, x).z


\* C28: Cmp and IsEqual agree: for all x and y, compare(x, y) = 0 if and only
\* if equal(x, y) is true; in particular compare never returns 0 when either
\* operand is NaN, overflowed or underflowed.
C28_CmpAgreesWithEqual ==
  op = "compare" =>
    /\ (obs.cmp = 0) <=> equal(x, y)
    /\ (hasExceptionalState(x) \/ hasExceptionalState(y)) => obs.cmp # 0

\* two values with the same limbs and sign, both flagged underflow, were
\* compared and came out unequal in both orders
C28_UnderflowedTwinsCompared ==
  /\ op = "compare"
  /\ x = y /\ x.unf /\ ~x.nan /\ ~x.ovf
  /\ obs.cmp = 1 /\ obs.rev = 1
  /\ ~equal(x, y)


\* C29: rounding never loses a carry out of the most significant limb: for
\* non-NaN, non-overflow x and 0 <= places <= 35, round(x, places, mode) in
\* any mode is either flagged overflow or has a magnitude of at least the
\* truncation of |x| at the requested place.
C29_RoundKeepsCarry ==
  (op = "round" /\ ~x.nan /\ ~x.ovf
     /\ arg.places >= 0 /\ arg.places < maxDecimalPlaces) =>
    LET atLeast(w) == ~obs.panic /\ (z.ovf \/ (~z.nan /\ WCmp(magnitude(z), w) >= 0))
        truncated(m, unit) == WMul(WDivMod(m, unit)[1], unit)
    IN atLeast(truncated(magnitude(x), tenTo(maxDecimalPlaces - arg.places)))


---------------------------------------------------------------------------
(* SpecUnmarshal: UnmarshalText or UnmarshalJSON called once on a receiver *)
(* that already holds a value; x keeps the receiver as it was before       *)

Receivers ==
  { ZeroF24,
    f24Of(<<0, 1, 0, 0, 0, 0>>),
    setNeg(f24Of(<<0, 2, 500000000, 0, 0, 0>>), TRUE),
    setUnderflow(f24Of(<<0, 0, 0, 0, 0, 1>>), TRUE),
    overflow(FALSE),
    NaNF24 }

PlainTexts ==
  { <<>>, <<"7">>, <<"-", "3", ".", "2", "5">>, <<"N", "a", "N">>, <<"4", "e", "2">>,
    <<"<", "1">>, <<"~", "0", ".", "1">>, <<" ", "8", " ">>,
    <<"1", "x">>, <<"-", "-", "1">>, <<"e", "1", "0">>, <<"1", ".", "2", ".", "3">>,
    <<"+">>, <<"1", "e", "2", "e", "3">>, <<"\"">>, <<"\"", "7">>, <<"7", "\"">> }

UnmarshalInputs == PlainTexts \cup { <<"\"">> \o t \o <<"\"">> : t \in PlainTexts }

InitUnmarshal ==
  /\ x \in Receivers
  /\ z = x
  /\ arg \in UnmarshalInputs
  /\ y = ZeroF24
  /\ op = "none"
  /\ obs = NoObs
  /\ steps = 0

\* n.UnmarshalText(arg) with the receiver n held in z
DoUnmarshalTextOnce ==
  /\ op = "none"
  /\ LET returned(r) ==
           /\ z' = r.n
           /\ obs' = [obs EXCEPT !.err = r.err, !.kind = r.kind]
     IN returned(UnmarshalText(z, arg))
  /\ op' = "unmarshalText"
  /\ steps' = steps + 1
  /\ UNCHANGED <<x, y, arg>>

\* n.UnmarshalJSON(arg) with the receiver n held in z
DoUnmarshalJSONOnce ==
  /\ op = "none"
  /\ LET returned(r) ==
           /\ z' = r.n
           /\ obs' = [obs EXCEPT !.err = r.err, !.kind = r.kind]
     IN returned(UnmarshalJSON(z, arg))
  /\ op' = "unmarshalJSON"
  /\ steps' = steps + 1
  /\ UNCHANGED <<x, y, arg>>

NextUnmarshal == DoUnmarshalTextOnce \/ DoUnmarshalJSONOnce

SpecUnmarshal == InitUnmarshal /\ [][NextUnmarshal]_vars

\* C30: a failed parse leaves the receiver untouched: when UnmarshalText or
\* UnmarshalJSON returns an error the receiver keeps exactly the limbs and
\* flags it had before the call, and on success the receiver is replaced as
\* a whole by the parsed value, whatever it held before.
C30_FailedParseKeepsReceiver ==
  op \in {"unmarshalText", "unmarshalJSON"} =>
    LET parsed(r) ==
          /\ obs.err = r.err
          /\ IF obs.err THEN z = x ELSE z = r.z
    IN parsed(f24String(IF op = "unmarshalJSON" THEN jsonPayload(arg) ELSE arg))

\* a receiver holding -2.5 was given the JSON text "1x", the call failed with
\* ErrInvalidCharacter and the receiver still holds -2.5
C30_FailedOverHeldValue ==
  /\ op = "unmarshalJSON"
  /\ arg = <<"\"", "1", "x", "\"">>
  /\ obs.err /\ obs.kind = "ErrInvalidCharacter"
  /\ x.neg /\ val(x, 1) = 2 /\ val(x, decIndex) = radixHalfI
  /\ z = x

=============================================================================
